---- MODULE Spec2Model ----
(***************************************************************************)
(* Media organizer: scan -> decide -> execute pipeline.                    *)
(*                                                                         *)
(* The model follows one configured remote.  Uploaded files sit at the     *)
(* root of the incoming area (so decide's parent-folder merge is not       *)
(* taken); the organised library is the set of destination paths that      *)
(* decide can compute.  A source file name is identified with the facts    *)
(* FilenameParser.parse extracts from it.  Empty-directory cleanup         *)
(* (rclone rmdirs) touches no file and is left out.  Timestamps are        *)
(* counted in units of one stability period.                               *)
(***************************************************************************)
EXTENDS Integers, Sequences, FiniteSets, TLC

(* ------------------------------ bounds -------------------------------- *)
\* total number of writes (new files, growth of a file) into the incoming
\* area over one behaviour
MaxUploads == 2
\* the clock stops ticking at MaxTime
MaxTime == 2
\* largest size a growing upload reaches
MaxSize == 2
\* rows the quality_tracking table holds when the replacement decision is
\* examined on its own
MaxFiled == 2

(* ---------------------------- value domains --------------------------- *)
\* Python None for Optional[int] fields (tmdb_id, year, season, episode)
None == -1
\* Python None for Optional[str] fields
NoStr == ""
\* the single configured remote (config.scan_remotes)
Remote == "gdrive"

\* parsed facts of the file names that can be uploaded
Names ==
    { [title |-> "Maa", year |-> 2025, season |-> None, episode |-> None,
       quality |-> "CAM", extension |-> ".mkv"],
      [title |-> "Maa", year |-> 2025, season |-> None, episode |-> None,
       quality |-> "720p", extension |-> ".mkv"],
      [title |-> "Squid Game", year |-> None, season |-> 1, episode |-> 1,
       quality |-> "720p", extension |-> ".mkv"],
      [title |-> "Squid Game", year |-> None, season |-> 1, episode |-> 1,
       quality |-> "1080p", extension |-> ".mkv"] }

\* rclone lsjson lists in a fixed order; the order of the batch follows it
RECURSIVE SetToSeq(_)
SetToSeq(S) ==
    IF S = {} THEN <<>>
    ELSE LET x == CHOOSE y \in S : TRUE IN <<x>> \o SetToSeq(S \ {x})

ListingOrder == SetToSeq(Names)

\* the catalog service's entries, by title
Catalog(title) ==
    CASE title = "Maa" ->
             [tmdb_id |-> 101, tmdb_type |-> "movie", title |-> "Maa", year |-> 2025]
      [] title = "Squid Game" ->
             [tmdb_id |-> 202, tmdb_type |-> "tv", title |-> "Squid Game", year |-> 2021]
      [] OTHER ->
             [tmdb_id |-> None, tmdb_type |-> NoStr, title |-> NoStr, year |-> None]

\* confidences (in percent) a catalog match can come back with
Confidences == {50, 90}

(* --------------------------- configuration ---------------------------- *)
VARIABLES
    config               \* the settings the decision engine reads

\* the defaults of Config.auto_replace_quality and cam_replacement_threshold,
\* and of the environment's USE_AI_FALLBACK
DefaultConfig ==
    [auto_replace |-> TRUE, cam_replacement_threshold |-> "720p",
     use_ai_fallback |-> FALSE]

\* the configurations the decision rules are examined under
Configs ==
    { DefaultConfig,
      [DefaultConfig EXCEPT !.cam_replacement_threshold = "1080p"],
      [DefaultConfig EXCEPT !.auto_replace = FALSE] }

quality_priority == <<"CAM", "HDTS", "HDTC", "720p", "1080p", "2160p", "4K">>

auto_replace_quality == config.auto_replace

cam_replacement_threshold == config.cam_replacement_threshold

\* str.upper() on the quality labels that occur
upper(s) ==
    CASE s = "720p" -> "720P"
      [] s = "1080p" -> "1080P"
      [] s = "2160p" -> "2160P"
      [] s = "DVDScr" -> "DVDSCR"
      [] s = "DVDRip" -> "DVDRIP"
      [] s = "Unknown" -> "UNKNOWN"
      [] OTHER -> s

stability_check_seconds == 1

use_ai_fallback == config.use_ai_fallback

\* the confidence at which _try_ai_fallback takes the AI's answer, and the
\* confidence at which it takes the catalog id for that answer
AI_CONFIDENCE_THRESHOLD == 70

AI_TMDB_CONFIDENCE_THRESHOLD == 50

TMDB_CONFIDENCE_THRESHOLD == 60

get_remote_type(remote) == "movie"

get_destination_folder(content_type) ==
    CASE content_type = "movie" -> "Movies"
      [] content_type = "tvshow" -> "TV Shows"
      [] content_type = "anime" -> "Anime"
      [] content_type = "kdrama" -> "K-Drama"
      [] OTHER -> NoStr

\* get_quality_index putting a label it does not find above the ladder
get_quality_index_UnknownOnTop(quality) ==
    LET hits == { i \in 1..Len(quality_priority) :
                     upper(quality_priority[i]) = upper(quality) }
    IN  IF hits # {}
        THEN (CHOOSE i \in hits : \A j \in hits : i <= j) - 1
        ELSE Len(quality_priority)

\* list.index: the first position holding the label, ignoring case
get_quality_index(quality) ==
    LET hits == { i \in 1..Len(quality_priority) :
                     upper(quality_priority[i]) = upper(quality) }
    IN  IF hits # {}
        THEN (CHOOSE i \in hits : \A j \in hits : i <= j) - 1
        ELSE -1

\* is_quality_better counting an equal quality as better
is_quality_better_OrEqual(new_quality, existing_quality) ==
    get_quality_index(new_quality) >= get_quality_index(existing_quality)

is_quality_better(new_quality, existing_quality) ==
    get_quality_index(new_quality) > get_quality_index(existing_quality)

\* should_replace_cam asking for a quality above the threshold
should_replace_cam_Strict(new_quality) ==
    get_quality_index(new_quality) > get_quality_index(cam_replacement_threshold)

should_replace_cam(new_quality) ==
    get_quality_index(new_quality) >= get_quality_index(cam_replacement_threshold)

(* ------------------------------- state -------------------------------- *)
VARIABLES
    incoming,            \* size of the file at each source path, 0 when absent
    library,             \* which upload's bytes each destination path holds
    processed_files,     \* the ledger table, one row per (remote, original_path)
    quality_tracking,    \* the quality_tracking table, rows in rowid order
    file_stability,      \* the file_stability table, one row per (remote, path)
    now,                 \* the clock
    uploads,             \* writes into the incoming area so far
    pc,                  \* where run_once stands: "idle", "loop" or "execute"
    batch,               \* stable_files still to be processed in this run_once
    decision,            \* the MoveDecision decide returned last
    result,              \* the ExecutionResult execute returned last
    calls,               \* the rclone calls the last execute issued, in order
    shutdown_requested,  \* MediaOrganizer._shutdown_requested
    dry_run,             \* Executor.dry_run
    lookups,             \* the collaborator calls the last decide made, in
                         \* order (kept when the cascade is examined)
    tmdb,                \* the TMDBMatcher search in progress (kept when the
                         \* matcher is examined)
    parser,              \* the FilenameParser input and what was parsed from
                         \* it (kept when the parser is examined)
    orchestrator,        \* the AIOrchestrator's cache and its last analysis
                         \* (kept when the orchestrator is examined)
    counts               \* run_once's locals: len(stable_files), success_count
                         \* and failure_count

vars == << incoming, library, processed_files, quality_tracking, file_stability,
           now, uploads, pc, batch, decision, result, calls,
           shutdown_requested, dry_run, config, lookups, tmdb, parser,
           orchestrator, counts >>

NoFile == [absent |-> TRUE]

NoPath == [absent |-> TRUE]

NoRow == [found |-> FALSE]

NoLedgerRow == [status |-> "none", error_message |-> NoStr]

NoStability == [tracked |-> FALSE]

NoDecision == [action |-> "none"]

NoResult == [success |-> FALSE, error_message |-> NoStr, returned |-> FALSE]

\* no catalog search is in progress
NoSearch == [pc |-> "off"]

\* nothing has been handed to the parser
NoParse == [pc |-> "off"]

\* the orchestrator has not been called
NoOrchestrator == [pc |-> "off"]

\* run_once is not running
NoCounts == [stable_files |-> 0, success_count |-> 0, failure_count |-> 0]

(* ---------------------------- database.py ----------------------------- *)
\* is_file_processed counting only 'success' as processed
is_file_processed_SuccessOnly(pf, path) ==
    pf[path].status \in {"success"}

\* is_file_processed counting a failed file as processed too
is_file_processed_AlsoFailed(pf, path) ==
    pf[path].status \in {"success", "skipped", "failed"}

\* SELECT ... WHERE status IN ('success', 'skipped')
is_file_processed(pf, path) ==
    pf[path].status \in {"success", "skipped"}

\* INSERT OR REPLACE on UNIQUE(remote, original_path)
add_processed_file(pf, path, status, error_message) ==
    [pf EXCEPT ![path] = [status |-> status, error_message |-> error_message]]

remove_stability_tracking(fs, path) ==
    [fs EXCEPT ![path] = NoStability]

\* UNIQUE(tmdb_id, tmdb_type, season, episode): SQLite holds two rows to
\* conflict only when every key column is non-NULL and equal
UniqueConflict(row, tmdb_id, tmdb_type, season, episode) ==
    /\ season # None
    /\ episode # None
    /\ row.tmdb_id = tmdb_id
    /\ row.tmdb_type = tmdb_type
    /\ row.season = season
    /\ row.episode = episode

\* INSERT OR REPLACE: the conflicting rows go, the new row gets a fresh rowid
update_quality_tracking(qt, tmdb_id, tmdb_type, quality, file_path, remote, season, episode) ==
    Append(SelectSeq(qt, LAMBDA row :
                ~UniqueConflict(row, tmdb_id, tmdb_type, season, episode)),
           [tmdb_id |-> tmdb_id, tmdb_type |-> tmdb_type, season |-> season,
            episode |-> episode, quality |-> quality, file_path |-> file_path,
            remote |-> remote])

\* fetchone() of the SELECT: the first matching row in rowid order
get_existing_quality(qt, tmdb_id, tmdb_type, season, episode) ==
    LET hits ==
            IF season # None /\ episode # None
            THEN SelectSeq(qt, LAMBDA row :
                     /\ row.tmdb_id = tmdb_id /\ row.tmdb_type = tmdb_type
                     /\ row.season = season /\ row.episode = episode)
            ELSE SelectSeq(qt, LAMBDA row :
                     /\ row.tmdb_id = tmdb_id /\ row.tmdb_type = tmdb_type
                     /\ row.season = None /\ row.episode = None)
    IN  IF hits = <<>> THEN NoRow ELSE Head(hits)

\* update_file_stability keeping the old last_size_change when the size has
\* changed
update_file_stability_KeepsClock(row, file_size) ==
    IF row = NoStability
    THEN [row |-> [tracked |-> TRUE, file_size |-> file_size,
                   last_size_change |-> now, is_stable |-> FALSE],
          is_new |-> TRUE, last_size_change |-> now]
    ELSE IF row.file_size # file_size
    THEN [row |-> [tracked |-> TRUE, file_size |-> file_size,
                   last_size_change |-> row.last_size_change, is_stable |-> FALSE],
          is_new |-> FALSE, last_size_change |-> row.last_size_change]
    ELSE [row |-> row, is_new |-> FALSE, last_size_change |-> row.last_size_change]

\* update_file_stability: the stored row after a scan saw the file with
\* file_size, and the stability info handed back to the scanner
update_file_stability(row, file_size) ==
    IF row = NoStability
    THEN [row |-> [tracked |-> TRUE, file_size |-> file_size,
                   last_size_change |-> now, is_stable |-> FALSE],
          is_new |-> TRUE, last_size_change |-> now]
    ELSE IF row.file_size # file_size
    THEN [row |-> [tracked |-> TRUE, file_size |-> file_size,
                   last_size_change |-> now, is_stable |-> FALSE],
          is_new |-> FALSE, last_size_change |-> now]
    ELSE [row |-> row, is_new |-> FALSE, last_size_change |-> row.last_size_change]

mark_file_stable(row) ==
    [row EXCEPT !.is_stable = TRUE]

(* -------------------------- rclone_wrapper.py ------------------------- *)
\* The executor's view of the world while one execute runs: the remote's
\* files, the three tables, the calls issued so far, whether the last call
\* raised RcloneError and what it returned, and the ExecutionResult.
World ==
    [incoming |-> incoming, library |-> library,
     processed_files |-> processed_files, quality_tracking |-> quality_tracking,
     file_stability |-> file_stability, calls |-> <<>>,
     raised |-> FALSE, value |-> FALSE, result |-> NoResult]

Call(op, path, ok, value) ==
    [op |-> op, path |-> path, ok |-> ok, value |-> value]

\* rclone moveto: on success the destination holds the source's bytes and the
\* source is gone; on failure RcloneError is raised and nothing moved
move_file(w, src_path, dst_path, ok) ==
    IF ok
    THEN [w EXCEPT !.library[dst_path] = src_path,
                   !.incoming[src_path] = 0,
                   !.calls = Append(@, Call("move", dst_path, TRUE, TRUE)),
                   !.raised = FALSE, !.value = TRUE]
    ELSE [w EXCEPT !.calls = Append(@, Call("move", dst_path, FALSE, FALSE)),
                   !.raised = TRUE, !.value = FALSE]

\* file_exists letting RcloneError out instead of answering False
file_exists_Raising(w, path, ok) ==
    LET found == ok /\ w.library[path] # NoFile
    IN  [w EXCEPT !.calls = Append(@, Call("exists", path, ok, found)),
                  !.raised = ~ok, !.value = found]

\* rclone lsjson: a failing command is caught inside and reported as False
file_exists(w, path, ok) ==
    LET found == ok /\ w.library[path] # NoFile
    IN  [w EXCEPT !.calls = Append(@, Call("exists", path, ok, found)),
                  !.raised = FALSE, !.value = found]

\* rclone deletefile: fails when the command fails or the file is not there
delete_file(w, path, ok) ==
    IF ok /\ w.library[path] # NoFile
    THEN [w EXCEPT !.library[path] = NoFile,
                   !.calls = Append(@, Call("delete", path, TRUE, TRUE)),
                   !.raised = FALSE, !.value = TRUE]
    ELSE [w EXCEPT !.calls = Append(@, Call("delete", path, FALSE, FALSE)),
                   !.raised = TRUE, !.value = FALSE]

\* deletefile on a source path (delete_source)
delete_source_file(w, path, ok) ==
    IF ok /\ w.incoming[path] # 0
    THEN [w EXCEPT !.incoming[path] = 0,
                   !.calls = Append(@, Call("delete", path, TRUE, TRUE)),
                   !.raised = FALSE, !.value = TRUE]
    ELSE [w EXCEPT !.calls = Append(@, Call("delete", path, FALSE, FALSE)),
                   !.raised = TRUE, !.value = FALSE]

(* ----------------------------- executor.py ---------------------------- *)
ExecutionResult(w, success, error_message) ==
    [w EXCEPT !.result = [success |-> success, error_message |-> error_message,
                          returned |-> TRUE]]

_record_success(w, d) ==
    [w EXCEPT !.processed_files =
        add_processed_file(@, d.source_path, "success", NoStr)]

\* _record_failure dropping the error message
_record_failure_NoMessage(w, d, error_message) ==
    [w EXCEPT !.processed_files =
        add_processed_file(@, d.source_path, "failed", NoStr)]

_record_failure(w, d, error_message) ==
    [w EXCEPT !.processed_files =
        add_processed_file(@, d.source_path, "failed", error_message)]

\* _record_skipped leaving the stability row in place
_record_skipped_KeepStability(w, d) ==
    [w EXCEPT !.processed_files =
                  add_processed_file(@, d.source_path, "skipped", NoStr)]

_record_skipped(w, d) ==
    [w EXCEPT !.processed_files =
                  add_processed_file(@, d.source_path, "skipped", NoStr),
              !.file_stability = remove_stability_tracking(@, d.source_path)]

\* "if decision.tmdb_id": None and 0 are both falsy
_update_quality_tracking(w, d) ==
    IF d.tmdb_id # None /\ d.tmdb_id # 0
    THEN [w EXCEPT !.quality_tracking =
            update_quality_tracking(@, d.tmdb_id,
                IF d.tmdb_type # NoStr THEN d.tmdb_type ELSE "unknown",
                d.quality, d.destination_path, d.destination_remote,
                d.season, d.episode)]
    ELSE w

\* a move that records success before it transfers
_execute_move_RecordFirst(w, d, mvOk) ==
    IF dry_run
    THEN ExecutionResult(w, TRUE, NoStr)
    ELSE LET w1 == _update_quality_tracking(_record_success(w, d), d)
             w2 == move_file(w1, d.source_path, d.destination_path, mvOk)
         IN  IF w2.raised
             THEN ExecutionResult(_record_failure(w2, d, "Move failed"),
                                  FALSE, "Move failed")
             ELSE ExecutionResult(
                      [w2 EXCEPT !.file_stability =
                          remove_stability_tracking(@, d.source_path)],
                      TRUE, NoStr)

\* a move that leaves the ledger alone when the transfer fails
_execute_move_FailureUnrecorded(w, d, mvOk) ==
    IF dry_run
    THEN ExecutionResult(w, TRUE, NoStr)
    ELSE LET w1 == move_file(w, d.source_path, d.destination_path, mvOk)
         IN  IF w1.raised
             THEN ExecutionResult(w1, FALSE, "Move failed")
             ELSE LET w2 == _record_success(w1, d)
                      w3 == _update_quality_tracking(w2, d)
                      w4 == [w3 EXCEPT !.file_stability =
                                remove_stability_tracking(@, d.source_path)]
                  IN  ExecutionResult(w4, TRUE, NoStr)

_execute_move(w, d, mvOk) ==
    IF dry_run
    THEN ExecutionResult(w, TRUE, NoStr)
    ELSE LET w1 == move_file(w, d.source_path, d.destination_path, mvOk)
         IN  IF w1.raised
             THEN ExecutionResult(_record_failure(w1, d, "Move failed"),
                                  FALSE, "Move failed")
             ELSE LET w2 == _record_success(w1, d)
                      w3 == _update_quality_tracking(w2, d)
                      w4 == [w3 EXCEPT !.file_stability =
                                remove_stability_tracking(@, d.source_path)]
                  IN  ExecutionResult(w4, TRUE, NoStr)

\* Step 3 of a replace and what follows it
ReplaceDeleteAndRecord(w, d, delOk) ==
    LET w1 == IF d.file_to_delete # NoPath /\ d.delete_remote # NoStr
              THEN delete_file(w, d.file_to_delete, delOk)
              ELSE w
        \* a failed delete is logged and the replace goes on
        w2 == _record_success(w1, d)
        w3 == _update_quality_tracking(w2, d)
        w4 == [w3 EXCEPT !.file_stability =
                  remove_stability_tracking(@, d.source_path)]
    IN  ExecutionResult(w4, TRUE, NoStr)

\* a replace that deletes the old file before it moves the new one
_execute_replace_DeleteFirst(w, d, mvOk, lsOk, delOk) ==
    IF dry_run
    THEN ExecutionResult(w, TRUE, NoStr)
    ELSE LET w0 == delete_file(w, d.file_to_delete, delOk)
             w1 == move_file(w0, d.source_path, d.destination_path, mvOk)
         IN  IF w1.raised
             THEN ExecutionResult(
                      _record_failure(w1, d, "Replacement aborted - move failed"),
                      FALSE, "Replacement aborted - move failed")
             ELSE LET w2 == _record_success(w1, d)
                      w3 == _update_quality_tracking(w2, d)
                      w4 == [w3 EXCEPT !.file_stability =
                                remove_stability_tracking(@, d.source_path)]
                  IN  ExecutionResult(w4, TRUE, NoStr)

_execute_replace(w, d, mvOk, lsOk, delOk) ==
    IF dry_run
    THEN ExecutionResult(w, TRUE, NoStr)
    ELSE LET w1 == move_file(w, d.source_path, d.destination_path, mvOk)
         IN  IF w1.raised
             THEN ExecutionResult(
                      _record_failure(w1, d, "Replacement aborted - move failed"),
                      FALSE, "Replacement aborted - move failed")
             ELSE LET w2 == file_exists(w1, d.destination_path, lsOk)
                  IN  IF ~w2.raised /\ ~w2.value
                      THEN ExecutionResult(
                               _record_failure(w2, d,
                                   "Replacement aborted - new file not found after move"),
                               FALSE,
                               "Replacement aborted - new file not found after move")
                      ELSE ReplaceDeleteAndRecord(w2, d, delOk)

\* a delete_source that removes the filed copy the decision names
_execute_delete_source_DeletesFiled(w, d, delOk) ==
    IF dry_run
    THEN ExecutionResult(w, TRUE, NoStr)
    ELSE LET w1 == delete_file(w, d.file_to_delete, delOk)
         IN  IF w1.raised
             THEN ExecutionResult(
                      _record_failure(w1, d, "Failed to delete source"),
                      FALSE, "Failed to delete source")
             ELSE LET w2 == [w1 EXCEPT
                                !.processed_files =
                                    add_processed_file(@, d.source_path,
                                                       "duplicate_deleted", NoStr),
                                !.file_stability =
                                    remove_stability_tracking(@, d.source_path)]
                  IN  ExecutionResult(w2, TRUE, NoStr)

_execute_delete_source(w, d, delOk) ==
    IF dry_run
    THEN ExecutionResult(w, TRUE, NoStr)
    ELSE LET w1 == delete_source_file(w, d.source_path, delOk)
         IN  IF w1.raised
             THEN ExecutionResult(
                      _record_failure(w1, d, "Failed to delete source"),
                      FALSE, "Failed to delete source")
             ELSE LET w2 == [w1 EXCEPT
                                !.processed_files =
                                    add_processed_file(@, d.source_path,
                                                       "duplicate_deleted", NoStr),
                                !.file_stability =
                                    remove_stability_tracking(@, d.source_path)]
                  IN  ExecutionResult(w2, TRUE, NoStr)

\* an execute that writes a skip to the ledger as a failure
execute_SkipFails(w, d, mvOk, lsOk, delOk) ==
    CASE d.action = "skip" ->
             ExecutionResult(_record_failure(w, d, "skipped"), TRUE, NoStr)
      [] d.action = "error" ->
             ExecutionResult(_record_failure(w, d, d.error_message),
                             FALSE, d.error_message)
      [] d.action = "move" -> _execute_move(w, d, mvOk)
      [] d.action = "replace" -> _execute_replace(w, d, mvOk, lsOk, delOk)
      [] d.action = "delete_source" -> _execute_delete_source(w, d, delOk)
      [] OTHER -> ExecutionResult(w, FALSE, "Unknown action")

execute(w, d, mvOk, lsOk, delOk) ==
    CASE d.action = "skip" ->
             ExecutionResult(_record_skipped(w, d), TRUE, NoStr)
      [] d.action = "error" ->
             ExecutionResult(_record_failure(w, d, d.error_message),
                             FALSE, d.error_message)
      [] d.action = "move" -> _execute_move(w, d, mvOk)
      [] d.action = "replace" -> _execute_replace(w, d, mvOk, lsOk, delOk)
      [] d.action = "delete_source" -> _execute_delete_source(w, d, delOk)
      [] OTHER -> ExecutionResult(w, FALSE, "Unknown action")

(* -------------------------- decision_engine.py ------------------------ *)
\* FilenameParser.parse: a name is identified with its parsed facts; a file
\* is series-like when a season or an episode was found
\* (languages is the field decide and TMDBMatcher read from the parse; the
\* parser of this tree sets none, and _build_decision_from_tmdb reads it with
\* the default [])
parse(name) ==
    [title |-> name.title, year |-> name.year, season |-> name.season,
     episode |-> name.episode, quality |-> name.quality,
     is_series |-> (name.season # None \/ name.episode # None),
     extension |-> name.extension, languages |-> <<>>]

NoMatch ==
    [tmdb_id |-> None, tmdb_type |-> NoStr, title |-> NoStr, year |-> None,
     confidence |-> 0]

\* what TMDBMatcher.match can return for a title: nothing (no candidate, or a
\* network error absorbed by _try_tmdb_match), or the catalog's entry with
\* some confidence
MatchOutcomes(title) ==
    IF Catalog(title).tmdb_id = None
    THEN {NoMatch}
    ELSE {NoMatch} \cup
         { [tmdb_id |-> Catalog(title).tmdb_id, tmdb_type |-> Catalog(title).tmdb_type,
            title |-> Catalog(title).title, year |-> Catalog(title).year,
            confidence |-> c] : c \in Confidences }

NoWebResult == [verified_title |-> NoStr, year |-> None, media_type |-> NoStr]

\* what WebSearcher.search_title can return for a title: no correction, or the
\* title as the catalog spells it
WebOutcomes(title) ==
    IF Catalog(title).tmdb_id = None
    THEN {NoWebResult}
    ELSE {NoWebResult,
          [verified_title |-> Catalog(title).title, year |-> Catalog(title).year,
           media_type |-> Catalog(title).tmdb_type]}

\* Python truthiness of an Optional[int]
Truthy(n) == n # None /\ n # 0

_generate_destination_path(title, year, season, episode, quality, extension, content_type, languages) ==
    IF content_type = "movie"
    THEN [folder |-> get_destination_folder(content_type),
          title |-> title, year |-> year, languages |-> languages,
          season |-> None, episode |-> None,
          quality |-> IF quality # NoStr /\ quality # "Unknown"
                      THEN quality ELSE NoStr,
          extension |-> extension]
    ELSE [folder |-> get_destination_folder(content_type),
          title |-> title, year |-> year, languages |-> languages,
          season |-> IF Truthy(season) THEN season ELSE 1,
          episode |-> IF Truthy(episode) THEN episode ELSE 1,
          quality |-> NoStr,
          extension |-> extension]

\* a replacement check that names the new destination as the file to delete
_check_quality_replacement_DeletesDestination(qt, tmdb_id, tmdb_type, season, episode, new_quality, destination_path, remote) ==
    IF ~auto_replace_quality
    THEN [action |-> "move", file_to_delete |-> NoPath, delete_remote |-> NoStr]
    ELSE LET existing == get_existing_quality(qt, tmdb_id, tmdb_type, season, episode)
         IN  IF existing = NoRow
             THEN [action |-> "move", file_to_delete |-> NoPath, delete_remote |-> NoStr]
             ELSE IF is_quality_better(new_quality, existing.quality)
             THEN IF upper(existing.quality) = "CAM" /\ ~should_replace_cam(new_quality)
                  THEN [action |-> "skip", file_to_delete |-> NoPath,
                        delete_remote |-> NoStr]
                  ELSE [action |-> "replace", file_to_delete |-> destination_path,
                        delete_remote |-> existing.remote]
             ELSE [action |-> "skip", file_to_delete |-> NoPath, delete_remote |-> NoStr]

\* a replacement check that files a worse copy next to the better one
_check_quality_replacement_WorseMoves(qt, tmdb_id, tmdb_type, season, episode, new_quality, destination_path, remote) ==
    IF ~auto_replace_quality
    THEN [action |-> "move", file_to_delete |-> NoPath, delete_remote |-> NoStr]
    ELSE LET existing == get_existing_quality(qt, tmdb_id, tmdb_type, season, episode)
         IN  IF existing = NoRow
             THEN [action |-> "move", file_to_delete |-> NoPath, delete_remote |-> NoStr]
             ELSE IF is_quality_better(new_quality, existing.quality)
             THEN IF upper(existing.quality) = "CAM" /\ ~should_replace_cam(new_quality)
                  THEN [action |-> "skip", file_to_delete |-> NoPath,
                        delete_remote |-> NoStr]
                  ELSE [action |-> "replace", file_to_delete |-> existing.file_path,
                        delete_remote |-> existing.remote]
             ELSE IF new_quality = existing.quality
             THEN [action |-> "skip", file_to_delete |-> NoPath, delete_remote |-> NoStr]
             ELSE [action |-> "move", file_to_delete |-> NoPath, delete_remote |-> NoStr]

\* a replacement check that compares qualities whatever the configuration says
_check_quality_replacement_IgnoresSwitch(qt, tmdb_id, tmdb_type, season, episode, new_quality, destination_path, remote) ==
    LET existing == get_existing_quality(qt, tmdb_id, tmdb_type, season, episode)
    IN  IF existing = NoRow
        THEN [action |-> "move", file_to_delete |-> NoPath, delete_remote |-> NoStr]
        ELSE IF is_quality_better(new_quality, existing.quality)
        THEN IF upper(existing.quality) = "CAM" /\ ~should_replace_cam(new_quality)
             THEN [action |-> "skip", file_to_delete |-> NoPath,
                   delete_remote |-> NoStr]
             ELSE [action |-> "replace", file_to_delete |-> existing.file_path,
                   delete_remote |-> existing.remote]
        ELSE [action |-> "skip", file_to_delete |-> NoPath, delete_remote |-> NoStr]

_check_quality_replacement(qt, tmdb_id, tmdb_type, season, episode, new_quality, destination_path, remote) ==
    IF ~auto_replace_quality
    THEN [action |-> "move", file_to_delete |-> NoPath, delete_remote |-> NoStr]
    ELSE LET existing == get_existing_quality(qt, tmdb_id, tmdb_type, season, episode)
         IN  IF existing = NoRow
             THEN [action |-> "move", file_to_delete |-> NoPath, delete_remote |-> NoStr]
             ELSE IF is_quality_better(new_quality, existing.quality)
             THEN IF upper(existing.quality) = "CAM" /\ ~should_replace_cam(new_quality)
                  THEN [action |-> "skip", file_to_delete |-> NoPath,
                        delete_remote |-> NoStr]
                  ELSE [action |-> "replace", file_to_delete |-> existing.file_path,
                        delete_remote |-> existing.remote]
             ELSE [action |-> "skip", file_to_delete |-> NoPath, delete_remote |-> NoStr]

_build_decision_from_tmdb(qt, remote, path, parsed, tmdb_match, content_type) ==
    LET title == tmdb_match.title
        year == IF Truthy(tmdb_match.year) THEN tmdb_match.year ELSE parsed.year
        ctype == IF tmdb_match.tmdb_type = "tv"
                 THEN IF content_type \in {"anime", "kdrama"}
                      THEN content_type ELSE "tvshow"
                 ELSE "movie"
        destination_path ==
            _generate_destination_path(title, year, parsed.season, parsed.episode,
                                       parsed.quality, parsed.extension, ctype,
                                       parsed.languages)
        check == _check_quality_replacement(qt, tmdb_match.tmdb_id,
                     tmdb_match.tmdb_type, parsed.season, parsed.episode,
                     parsed.quality, destination_path, remote)
    IN  [action |-> check.action,
         source_remote |-> remote, source_path |-> path,
         destination_remote |-> remote, destination_path |-> destination_path,
         tmdb_id |-> tmdb_match.tmdb_id, tmdb_type |-> tmdb_match.tmdb_type,
         title |-> title, year |-> year,
         season |-> parsed.season, episode |-> parsed.episode,
         quality |-> parsed.quality, content_type |-> ctype,
         file_to_delete |-> check.file_to_delete,
         delete_remote |-> check.delete_remote,
         error_message |-> NoStr]

\* AIOrchestrator: no usable answer (no client, or the call failed)
NoAI == [available |-> FALSE]

\* AIOrchestrator._build_destination: the folder and file name the AI's
\* analysis is filed under
_build_destination(analysis, extension) ==
    IF analysis.category \in {"tvshow", "anime", "kdrama"} /\ analysis.season # None
    THEN [folder |-> get_destination_folder(analysis.category),
          title |-> analysis.title, year |-> analysis.year,
          languages |-> analysis.languages,
          season |-> analysis.season, episode |-> analysis.episode,
          quality |-> analysis.quality, extension |-> extension]
    ELSE [folder |-> get_destination_folder(analysis.category),
          title |-> analysis.title, year |-> analysis.year,
          languages |-> analysis.languages,
          season |-> None, episode |-> None,
          quality |-> analysis.quality, extension |-> extension]

\* what AIOrchestrator.analyze can return for a file: nothing usable, the
\* heuristic analysis (confidence 0.6) or the model's analysis (0.95)
AIOutcomes(name) ==
    {NoAI} \cup
    { [available |-> TRUE, confidence |-> c,
       category |-> IF Catalog(name.title).tmdb_type = "tv" THEN "tvshow" ELSE "movie",
       title |-> name.title,
       year |-> IF Catalog(name.title).tmdb_id # None
                THEN Catalog(name.title).year ELSE name.year,
       season |-> name.season, episode |-> name.episode,
       languages |-> <<"English">>, quality |-> name.quality] : c \in {60, 95} }

\* one call decide made to a collaborator and the confidence it came back with
Lookup(stage, confidence) ==
    [stage |-> stage, confidence |-> confidence, raised |-> FALSE]

\* an exception leaving a collaborator call, in place of its return value
Raised == [raised |-> TRUE]

\* the call made at a stage, when it raised or came back with a match
LookupOf(stage, outcome) ==
    IF outcome = Raised
    THEN [stage |-> stage, confidence |-> 0, raised |-> TRUE]
    ELSE Lookup(stage, outcome.confidence)

\* exceptions are not absorbed, and the match is handed on as it came
_try_tmdb_match_Propagates(outcome) == outcome

\* _try_tmdb_match: what tmdb.match returned, None when it raised
_try_tmdb_match(outcome) == IF outcome = Raised THEN NoMatch ELSE outcome

\* WebSearcher.search_title: what the search found, None when it raised
search_title(outcome) == IF outcome = Raised THEN NoWebResult ELSE outcome

\* decide left by an exception: no MoveDecision is returned
Unwound(made) == [decision |-> [action |-> "raised"], lookups |-> made]

\* a fallback that takes the AI's proposal whatever its confidence
_try_ai_fallback_AcceptsAnyConfidence(qt, remote, path, ai, m3) ==
    IF ai = Raised
    THEN [decision |-> NoDecision, lookups |-> <<LookupOf("ai", ai)>>]
    ELSE IF ~ai.available
    THEN [decision |-> NoDecision, lookups |-> <<>>]
    ELSE IF ai.confidence < 0
    THEN [decision |-> NoDecision, lookups |-> <<Lookup("ai", ai.confidence)>>]
    ELSE LET destination_path == _build_destination(ai, path.extension)
             found == /\ m3 # Raised
                      /\ m3 # NoMatch
                      /\ m3.confidence >= AI_TMDB_CONFIDENCE_THRESHOLD
             tmdb_id == IF found THEN m3.tmdb_id ELSE None
             tmdb_type == IF found THEN m3.tmdb_type ELSE NoStr
             check == IF Truthy(tmdb_id)
                      THEN _check_quality_replacement(qt, tmdb_id, tmdb_type,
                               ai.season, ai.episode, ai.quality,
                               destination_path, remote)
                      ELSE [action |-> "move", file_to_delete |-> NoPath,
                            delete_remote |-> NoStr]
         IN  [decision |->
                  [action |-> check.action,
                   source_remote |-> remote, source_path |-> path,
                   destination_remote |-> remote,
                   destination_path |-> destination_path,
                   tmdb_id |-> tmdb_id, tmdb_type |-> tmdb_type,
                   title |-> ai.title, year |-> ai.year,
                   season |-> ai.season, episode |-> ai.episode,
                   quality |-> ai.quality, content_type |-> ai.category,
                   file_to_delete |-> check.file_to_delete,
                   delete_remote |-> check.delete_remote,
                   error_message |-> NoStr],
              lookups |-> <<Lookup("ai", ai.confidence),
                            LookupOf("tmdb_for_ai", m3)>>]

\* _try_ai_fallback, given the AI's answer (ai) and what the catalog answers
\* to the lookup made for it (m3): the decision, NoDecision for None, and the
\* calls made
_try_ai_fallback(qt, remote, path, ai, m3) ==
    IF ai = Raised
    THEN [decision |-> NoDecision, lookups |-> <<LookupOf("ai", ai)>>]
    ELSE IF ~ai.available
    THEN [decision |-> NoDecision, lookups |-> <<>>]
    ELSE IF ai.confidence < AI_CONFIDENCE_THRESHOLD
    THEN [decision |-> NoDecision, lookups |-> <<Lookup("ai", ai.confidence)>>]
    ELSE LET destination_path == _build_destination(ai, path.extension)
             found == /\ m3 # Raised
                      /\ m3 # NoMatch
                      /\ m3.confidence >= AI_TMDB_CONFIDENCE_THRESHOLD
             tmdb_id == IF found THEN m3.tmdb_id ELSE None
             tmdb_type == IF found THEN m3.tmdb_type ELSE NoStr
             check == IF Truthy(tmdb_id)
                      THEN _check_quality_replacement(qt, tmdb_id, tmdb_type,
                               ai.season, ai.episode, ai.quality,
                               destination_path, remote)
                      ELSE [action |-> "move", file_to_delete |-> NoPath,
                            delete_remote |-> NoStr]
         IN  [decision |->
                  [action |-> check.action,
                   source_remote |-> remote, source_path |-> path,
                   destination_remote |-> remote,
                   destination_path |-> destination_path,
                   tmdb_id |-> tmdb_id, tmdb_type |-> tmdb_type,
                   title |-> ai.title, year |-> ai.year,
                   season |-> ai.season, episode |-> ai.episode,
                   quality |-> ai.quality, content_type |-> ai.category,
                   file_to_delete |-> check.file_to_delete,
                   delete_remote |-> check.delete_remote,
                   error_message |-> NoStr],
              lookups |-> <<Lookup("ai", ai.confidence),
                            LookupOf("tmdb_for_ai", m3)>>]

\* a fallback whose error decision drops the parsed title and year
DecideFallback_BlankError(qt, remote, path, parsed, content_type, made, ai, m3) ==
    LET fallback == IF use_ai_fallback
                    THEN _try_ai_fallback(qt, remote, path, ai, m3)
                    ELSE [decision |-> NoDecision, lookups |-> <<>>]
    IN  IF fallback.decision # NoDecision
        THEN [decision |-> fallback.decision, lookups |-> made \o fallback.lookups]
        ELSE [decision |->
                  [action |-> "error",
                   source_remote |-> remote, source_path |-> path,
                   destination_remote |-> remote, destination_path |-> path,
                   tmdb_id |-> None, tmdb_type |-> NoStr,
                   title |-> NoStr, year |-> None,
                   season |-> parsed.season, episode |-> parsed.episode,
                   quality |-> parsed.quality, content_type |-> content_type,
                   file_to_delete |-> NoPath, delete_remote |-> NoStr,
                   error_message |-> "No TMDB match found"],
              lookups |-> made \o fallback.lookups]

\* STEP 5 and STEP 6 of decide: the AI fallback when it is enabled, else the
\* error decision
DecideFallback(qt, remote, path, parsed, content_type, made, ai, m3) ==
    LET fallback == IF use_ai_fallback
                    THEN _try_ai_fallback(qt, remote, path, ai, m3)
                    ELSE [decision |-> NoDecision, lookups |-> <<>>]
    IN  IF fallback.decision # NoDecision
        THEN [decision |-> fallback.decision, lookups |-> made \o fallback.lookups]
        ELSE [decision |->
                  [action |-> "error",
                   source_remote |-> remote, source_path |-> path,
                   destination_remote |-> remote, destination_path |-> path,
                   tmdb_id |-> None, tmdb_type |-> NoStr,
                   title |-> parsed.title, year |-> parsed.year,
                   season |-> parsed.season, episode |-> parsed.episode,
                   quality |-> parsed.quality, content_type |-> content_type,
                   file_to_delete |-> NoPath, delete_remote |-> NoStr,
                   error_message |-> "No TMDB match found"],
              lookups |-> made \o fallback.lookups]

\* a cascade that takes whatever the first catalog match is
DecideCascade_AcceptsAnyMatch(qt, remote, path, m1, web, m2, ai, m3) ==
    LET parsed == parse(path)
        content_type == get_remote_type(remote)
        tmdb_match == _try_tmdb_match(m1)
        web_result == search_title(web)
        rematch == _try_tmdb_match(m2)
        corrected_parsed ==
            [parsed EXCEPT !.title = web_result.verified_title,
                           !.year = IF Truthy(web_result.year) THEN web_result.year
                                    ELSE parsed.year,
                           !.is_series = (web_result.media_type = "tv" \/ parsed.is_series)]
        corrected_type ==
            IF web_result.media_type = "tv"
            THEN IF content_type \in {"anime", "kdrama"} THEN content_type ELSE "tvshow"
            ELSE IF web_result.media_type = "movie" THEN "movie" ELSE content_type
        made1 == <<LookupOf("tmdb", m1)>>
        made2 == Append(made1,
                        IF web = Raised THEN LookupOf("web", web)
                        ELSE Lookup("web", IF web.verified_title # NoStr THEN 100 ELSE 0))
        made3 == Append(made2, LookupOf("tmdb", m2))
    IN  IF tmdb_match = Raised
        THEN Unwound(made1)
        ELSE IF tmdb_match # NoMatch
        THEN [decision |-> _build_decision_from_tmdb(qt, remote, path, parsed,
                                                     tmdb_match, content_type),
              lookups |-> made1]
        ELSE IF web_result = Raised
        THEN Unwound(made2)
        ELSE IF web_result.verified_title = NoStr
        THEN DecideFallback(qt, remote, path, parsed, content_type, made2, ai, m3)
        ELSE IF rematch = Raised
        THEN Unwound(made3)
        ELSE IF rematch # NoMatch /\ rematch.confidence >= TMDB_CONFIDENCE_THRESHOLD
        THEN [decision |-> _build_decision_from_tmdb(qt, remote, path,
                               corrected_parsed, rematch, corrected_type),
              lookups |-> made3]
        ELSE DecideFallback(qt, remote, path, parsed, corrected_type, made3, ai, m3)

\* decide, given what the catalog answers to the first match (m1), what the
\* web search answers (web), what the catalog answers to the re-match (m2)
\* and what the AI fallback gets (ai, m3): the decision and the calls made
DecideCascade(qt, remote, path, m1, web, m2, ai, m3) ==
    LET parsed == parse(path)
        content_type == get_remote_type(remote)
        tmdb_match == _try_tmdb_match(m1)
        web_result == search_title(web)
        rematch == _try_tmdb_match(m2)
        corrected_parsed ==
            [parsed EXCEPT !.title = web_result.verified_title,
                           !.year = IF Truthy(web_result.year) THEN web_result.year
                                    ELSE parsed.year,
                           !.is_series = (web_result.media_type = "tv" \/ parsed.is_series)]
        corrected_type ==
            IF web_result.media_type = "tv"
            THEN IF content_type \in {"anime", "kdrama"} THEN content_type ELSE "tvshow"
            ELSE IF web_result.media_type = "movie" THEN "movie" ELSE content_type
        made1 == <<LookupOf("tmdb", m1)>>
        made2 == Append(made1,
                        IF web = Raised THEN LookupOf("web", web)
                        ELSE Lookup("web", IF web.verified_title # NoStr THEN 100 ELSE 0))
        made3 == Append(made2, LookupOf("tmdb", m2))
    IN  IF tmdb_match = Raised
        THEN Unwound(made1)
        ELSE IF tmdb_match # NoMatch /\ tmdb_match.confidence >= TMDB_CONFIDENCE_THRESHOLD
        THEN [decision |-> _build_decision_from_tmdb(qt, remote, path, parsed,
                                                     tmdb_match, content_type),
              lookups |-> made1]
        ELSE IF web_result = Raised
        THEN Unwound(made2)
        ELSE IF web_result.verified_title = NoStr
        THEN DecideFallback(qt, remote, path, parsed, content_type, made2, ai, m3)
        ELSE IF rematch = Raised
        THEN Unwound(made3)
        ELSE IF rematch # NoMatch /\ rematch.confidence >= TMDB_CONFIDENCE_THRESHOLD
        THEN [decision |-> _build_decision_from_tmdb(qt, remote, path,
                               corrected_parsed, rematch, corrected_type),
              lookups |-> made3]
        ELSE DecideFallback(qt, remote, path, parsed, corrected_type, made3, ai, m3)

decide(qt, remote, path, m1, web, m2, ai, m3) ==
    DecideCascade(qt, remote, path, m1, web, m2, ai, m3).decision

\* every destination decide can compute for the names of the model
DestPaths ==
    UNION { { decide(<<>>, Remote, n, m, NoWebResult, NoMatch, NoAI, NoMatch).destination_path :
                m \in {y \in MatchOutcomes(n.title) :
                          y.confidence >= TMDB_CONFIDENCE_THRESHOLD} } :
            n \in Names }

(* ----------------------------- scanner.py ----------------------------- *)
\* _check_stability on the info update_file_stability handed back
_check_stability(info) ==
    /\ ~info.is_new
    /\ now - info.last_size_change >= stability_check_seconds

\* what scan_remote does with one listed file: the file_stability row it
\* leaves and whether the file comes back as stable
ScanFile(path) ==
    LET info == update_file_stability(file_stability[path], incoming[path])
        stable == _check_stability(info)
    IN  [row |-> IF stable THEN mark_file_stable(info.row) ELSE info.row,
         is_stable |-> stable]

\* the files scan_remote looks at: listed, and not already processed
Scanned(path) ==
    incoming[path] > 0 /\ ~is_file_processed(processed_files, path)

\* get_stable_files, in listing order
get_stable_files ==
    SelectSeq(ListingOrder, LAMBDA path : Scanned(path) /\ ScanFile(path).is_stable)

(* ------------------------------ main.py ------------------------------- *)
Init ==
    /\ config = DefaultConfig
    /\ incoming = [n \in Names |-> 0]
    /\ library = [p \in DestPaths |-> NoFile]
    /\ processed_files = [n \in Names |-> NoLedgerRow]
    /\ quality_tracking = <<>>
    /\ file_stability = [n \in Names |-> NoStability]
    /\ now = 0
    /\ uploads = 0
    /\ pc = "idle"
    /\ batch = <<>>
    /\ decision = NoDecision
    /\ result = NoResult
    /\ calls = <<>>
    /\ shutdown_requested = FALSE
    /\ dry_run \in BOOLEAN
    /\ lookups = <<>>
    /\ tmdb = NoSearch
    /\ parser = NoParse
    /\ orchestrator = NoOrchestrator
    /\ counts = NoCounts

\* a new file appears in the incoming area
Upload(n) ==
    /\ pc = "idle"
    /\ ~shutdown_requested
    /\ uploads < MaxUploads
    /\ incoming[n] = 0
    /\ incoming' = [incoming EXCEPT ![n] = 1]
    /\ uploads' = uploads + 1
    /\ UNCHANGED << library, processed_files, quality_tracking, file_stability,
                    now, pc, batch, decision, result, calls,
                    shutdown_requested, dry_run, config, lookups, tmdb, parser, orchestrator, counts >>

\* an upload in progress grows
Grow(n) ==
    /\ pc = "idle"
    /\ ~shutdown_requested
    /\ uploads < MaxUploads
    /\ incoming[n] > 0
    /\ incoming[n] < MaxSize
    /\ incoming' = [incoming EXCEPT ![n] = @ + 1]
    /\ uploads' = uploads + 1
    /\ UNCHANGED << library, processed_files, quality_tracking, file_stability,
                    now, pc, batch, decision, result, calls,
                    shutdown_requested, dry_run, config, lookups, tmdb, parser, orchestrator, counts >>

\* time passes
Tick ==
    /\ pc = "idle"
    /\ ~shutdown_requested
    /\ now < MaxTime
    /\ now' = now + 1
    /\ UNCHANGED << incoming, library, processed_files, quality_tracking,
                    file_stability, uploads, pc, batch, decision, result, calls,
                    shutdown_requested, dry_run, config, lookups, tmdb, parser, orchestrator, counts >>

\* signal_handler
RequestShutdown ==
    /\ ~shutdown_requested
    /\ shutdown_requested' = TRUE
    /\ UNCHANGED << incoming, library, processed_files, quality_tracking,
                    file_stability, now, uploads, pc, batch, decision, result,
                    calls, dry_run, config, lookups, tmdb, parser, orchestrator, counts >>

\* run_once up to "if not stable_files": scan every remote and keep the
\* stable files
Scan ==
    /\ pc = "idle"
    /\ ~shutdown_requested
    /\ file_stability' =
           [n \in Names |-> IF Scanned(n) THEN ScanFile(n).row ELSE file_stability[n]]
    /\ batch' = get_stable_files
    /\ counts' = [stable_files |-> Len(get_stable_files), success_count |-> 0,
                  failure_count |-> 0]
    /\ pc' = "loop"
    /\ UNCHANGED << incoming, library, processed_files, quality_tracking, now,
                    uploads, decision, result, calls, shutdown_requested, dry_run, config, lookups, tmdb, parser, orchestrator >>

\* a loop that honours the shutdown flag as soon as it is set, between decide
\* and execute as well
LoopExit_BeforeExecute ==
    /\ \/ pc = "loop" /\ (batch = <<>> \/ shutdown_requested)
       \/ pc = "execute" /\ shutdown_requested
    /\ pc' = "idle"
    /\ batch' = <<>>
    /\ decision' = NoDecision
    /\ result' = NoResult
    /\ calls' = <<>>
    /\ counts' = NoCounts
    /\ UNCHANGED << incoming, library, processed_files, quality_tracking,
                    file_stability, now, uploads, shutdown_requested, dry_run, config, lookups, tmdb, parser, orchestrator >>

\* no stable files, the loop's shutdown check, or the loop's end: run_once
\* returns and its locals (the batch, the last decision and its result) are
\* gone
LoopExit ==
    /\ pc = "loop"
    /\ (batch = <<>> \/ shutdown_requested)
    /\ pc' = "idle"
    /\ batch' = <<>>
    /\ decision' = NoDecision
    /\ result' = NoResult
    /\ calls' = <<>>
    /\ counts' = NoCounts
    /\ UNCHANGED << incoming, library, processed_files, quality_tracking,
                    file_stability, now, uploads, shutdown_requested, dry_run, config, lookups, tmdb, parser, orchestrator >>

\* a decide that also files the quality of the file it looked at
Decide_WritesQuality ==
    /\ pc = "loop"
    /\ batch # <<>>
    /\ ~shutdown_requested
    /\ \E m1 \in MatchOutcomes(Head(batch).title),
          web \in WebOutcomes(Head(batch).title),
          m2 \in MatchOutcomes(Head(batch).title),
          ai \in IF use_ai_fallback THEN AIOutcomes(Head(batch)) ELSE {NoAI},
          m3 \in IF use_ai_fallback THEN MatchOutcomes(Head(batch).title) ELSE {NoMatch} :
            LET d == decide(quality_tracking, Remote, Head(batch), m1, web, m2, ai, m3)
            IN  /\ decision' = d
                /\ quality_tracking' =
                       IF d.action = "error" THEN quality_tracking
                       ELSE update_quality_tracking(quality_tracking, d.tmdb_id,
                                d.tmdb_type, d.quality, d.destination_path,
                                d.destination_remote, d.season, d.episode)
    /\ pc' = "execute"
    /\ UNCHANGED << incoming, library, processed_files,
                    file_stability, now, uploads, batch, result, calls,
                    shutdown_requested, dry_run, config, lookups, tmdb, parser, orchestrator, counts >>

\* the decisions of a batch all computed before any of them is executed:
\* each is made against the table as it was when the batch began
Decide_BeforeBatchExecutes ==
    /\ pc = "loop"
    /\ batch # <<>>
    /\ ~shutdown_requested
    /\ \E m1 \in MatchOutcomes(Head(batch).title),
          web \in WebOutcomes(Head(batch).title),
          m2 \in MatchOutcomes(Head(batch).title),
          ai \in IF use_ai_fallback THEN AIOutcomes(Head(batch)) ELSE {NoAI},
          m3 \in IF use_ai_fallback THEN MatchOutcomes(Head(batch).title) ELSE {NoMatch} :
            decision' = decide(IF decision = NoDecision THEN quality_tracking
                               ELSE SubSeq(quality_tracking, 1, Len(quality_tracking) - 1),
                               Remote, Head(batch), m1, web, m2, ai, m3)
    /\ pc' = "execute"
    /\ UNCHANGED << incoming, library, processed_files, quality_tracking,
                    file_stability, now, uploads, batch, result, calls,
                    shutdown_requested, dry_run, config, lookups, tmdb, parser, orchestrator, counts >>

\* decision = self.decision_engine.decide(file.remote, file.path); the one
\* database call decide makes is the SELECT of get_existing_quality
Decide ==
    /\ pc = "loop"
    /\ batch # <<>>
    /\ ~shutdown_requested
    /\ \E m1 \in MatchOutcomes(Head(batch).title),
          web \in WebOutcomes(Head(batch).title),
          m2 \in MatchOutcomes(Head(batch).title),
          ai \in IF use_ai_fallback THEN AIOutcomes(Head(batch)) ELSE {NoAI},
          m3 \in IF use_ai_fallback THEN MatchOutcomes(Head(batch).title) ELSE {NoMatch} :
            decision' = decide(quality_tracking, Remote, Head(batch), m1, web, m2, ai, m3)
    /\ pc' = "execute"
    /\ UNCHANGED << incoming, library, processed_files, quality_tracking,
                    file_stability, now, uploads, batch, result, calls,
                    shutdown_requested, dry_run, config, lookups, tmdb, parser, orchestrator, counts >>

\* result = self.executor.execute(decision)
Execute ==
    /\ pc = "execute"
    /\ \E mvOk \in BOOLEAN, lsOk \in BOOLEAN, delOk \in BOOLEAN :
         LET w == execute(World, decision, mvOk, lsOk, delOk)
         IN  /\ incoming' = w.incoming
             /\ library' = w.library
             /\ processed_files' = w.processed_files
             /\ quality_tracking' = w.quality_tracking
             /\ file_stability' = w.file_stability
             /\ calls' = w.calls
             /\ result' = w.result
             /\ counts' = IF w.result.success
                          THEN [counts EXCEPT !.success_count = @ + 1]
                          ELSE [counts EXCEPT !.failure_count = @ + 1]
    /\ batch' = Tail(batch)
    /\ pc' = "loop"
    /\ UNCHANGED << now, uploads, decision, shutdown_requested, dry_run, config, lookups, tmdb, parser, orchestrator >>

Next ==
    \/ \E n \in Names : Upload(n)
    \/ \E n \in Names : Grow(n)
    \/ Tick
    \/ RequestShutdown
    \/ Scan
    \/ LoopExit
    \/ Decide
    \/ Execute

Spec == Init /\ [][Next]_vars

\* Executor.execute also takes the action 'delete_source', which decide never
\* returns.  A delete_source decision as its handler reads it: the decision
\* for a source whose key already has a filed copy of equal or better
\* quality, naming that copy in file_to_delete.
DeleteSourceDecision(qt, remote, path, m1, web, m2) ==
    LET d == decide(qt, remote, path, m1, web, m2, NoAI, NoMatch)
        existing == get_existing_quality(qt, d.tmdb_id, d.tmdb_type, d.season, d.episode)
    IN  [d EXCEPT !.action = "delete_source",
                  !.file_to_delete = existing.file_path,
                  !.delete_remote = existing.remote]

\* a caller hands the executor a delete_source decision for the next file
DecideDeleteSource ==
    /\ pc = "loop"
    /\ batch # <<>>
    /\ ~shutdown_requested
    /\ \E m1 \in MatchOutcomes(Head(batch).title),
          web \in WebOutcomes(Head(batch).title),
          m2 \in MatchOutcomes(Head(batch).title) :
            /\ decide(quality_tracking, Remote, Head(batch), m1, web, m2,
                      NoAI, NoMatch).action = "skip"
            /\ decision' = DeleteSourceDecision(quality_tracking, Remote,
                                                Head(batch), m1, web, m2)
    /\ pc' = "execute"
    /\ UNCHANGED << incoming, library, processed_files, quality_tracking,
                    file_stability, now, uploads, batch, result, calls,
                    shutdown_requested, dry_run, config, lookups, tmdb, parser, orchestrator, counts >>

NextExecutor ==
    \/ Next
    \/ DecideDeleteSource

\* the pipeline with an executor that is also handed delete_source decisions
ExecutorSpec == Init /\ [][NextExecutor]_vars

(* ------------- unexpected exceptions in run_once's loop --------------- *)
\* an exception leaves decide and run_once with it: the batch is given up
DecideRaises_LeavesLoop ==
    /\ pc = "loop"
    /\ batch # <<>>
    /\ ~shutdown_requested
    /\ pc' = "idle"
    /\ batch' = <<>>
    /\ decision' = NoDecision
    /\ result' = NoResult
    /\ calls' = <<>>
    /\ counts' = NoCounts
    /\ UNCHANGED << incoming, library, processed_files, quality_tracking,
                    file_stability, now, uploads, shutdown_requested, dry_run,
                    config, lookups, tmdb, parser, orchestrator >>

\* decide raises (anything it does not catch itself); "except Exception" in
\* run_once logs it, counts a failure and the loop goes on with the next file
DecideRaises ==
    /\ pc = "loop"
    /\ batch # <<>>
    /\ ~shutdown_requested
    /\ counts' = [counts EXCEPT !.failure_count = @ + 1]
    /\ batch' = Tail(batch)
    /\ UNCHANGED << incoming, library, processed_files, quality_tracking,
                    file_stability, now, uploads, pc, decision, result, calls,
                    shutdown_requested, dry_run, config, lookups, tmdb, parser,
                    orchestrator >>

\* execute raises something other than RcloneError: OSError out of
\* subprocess.run before anything was transferred, or sqlite3.Error out of the
\* first write to the ledger, which for a move or a replace comes after the
\* transfer; no ExecutionResult is returned
ExecuteRaises(at_record) ==
    /\ pc = "execute"
    /\ decision.action \in {"skip", "error", "move", "replace"}
    /\ at_record => (~dry_run \/ decision.action \in {"skip", "error"})
    /\ ~at_record => (~dry_run /\ decision.action \in {"move", "replace"})
    /\ LET w == IF at_record /\ decision.action \in {"move", "replace"}
                THEN move_file(World, decision.source_path,
                               decision.destination_path, TRUE)
                ELSE World
       IN  /\ incoming' = w.incoming
           /\ library' = w.library
           /\ calls' = w.calls
    /\ result' = NoResult
    /\ counts' = [counts EXCEPT !.failure_count = @ + 1]
    /\ batch' = Tail(batch)
    /\ pc' = "loop"
    /\ UNCHANGED << processed_files, quality_tracking, file_stability, now,
                    uploads, decision, shutdown_requested, dry_run, config,
                    lookups, tmdb, parser, orchestrator >>

\* how many files wait in the remote folder when run_once starts
MaxBatch == 2

\* some files have been uploaded and seen by a scan, one stability period ago
InitBatch ==
    /\ config = DefaultConfig
    /\ \E present \in SUBSET Names :
          /\ present # {} /\ Cardinality(present) <= MaxBatch
          /\ incoming = [n \in Names |-> IF n \in present THEN 1 ELSE 0]
          /\ file_stability =
                 [n \in Names |->
                     IF n \in present
                     THEN [tracked |-> TRUE, file_size |-> 1,
                           last_size_change |-> 0, is_stable |-> FALSE]
                     ELSE NoStability]
    /\ library = [p \in DestPaths |-> NoFile]
    /\ processed_files = [n \in Names |-> NoLedgerRow]
    /\ quality_tracking = <<>>
    /\ now = stability_check_seconds
    /\ uploads = 0
    /\ pc = "idle"
    /\ batch = <<>>
    /\ decision = NoDecision
    /\ result = NoResult
    /\ calls = <<>>
    /\ shutdown_requested = FALSE
    /\ dry_run \in BOOLEAN
    /\ lookups = <<>>
    /\ tmdb = NoSearch
    /\ parser = NoParse
    /\ orchestrator = NoOrchestrator
    /\ counts = NoCounts

NextBatch ==
    \/ RequestShutdown
    \/ Scan
    \/ LoopExit
    \/ Decide
    \/ Execute
    \/ DecideRaises
    \/ \E at_record \in BOOLEAN : ExecuteRaises(at_record)

\* run_once over the files found stable, with collaborators that raise what
\* nobody below run_once catches
BatchSpec == InitBatch /\ [][NextBatch]_vars

(* ------- the replacement decision over qualities and configurations ---- *)
\* the labels FilenameParser._extract_quality can return
Qualities ==
    {"2160p", "1080p", "720p", "HDTS", "HDTC", "CAM", "DVDScr", "DVDRip", "Unknown"}

\* file names the decision is examined on: a movie in every quality, an
\* episode in two, an S00E00 special, which parses to season None and
\* episode 0, and a file of the series that names no episode
QualityNames ==
    { [title |-> "Maa", year |-> 2025, season |-> None, episode |-> None,
       quality |-> q, extension |-> ".mkv"] : q \in Qualities }
    \cup
    { [title |-> "Squid Game", year |-> None, season |-> 1, episode |-> 1,
       quality |-> q, extension |-> ".mkv"] : q \in {"720p", "1080p"} }
    \cup
    { [title |-> "Squid Game", year |-> None, season |-> None, episode |-> 0,
       quality |-> "720p", extension |-> ".mkv"],
      [title |-> "Squid Game", year |-> 2021, season |-> None, episode |-> None,
       quality |-> "1080p", extension |-> ".mkv"] }

\* the catalog's entry for a title, matched with full confidence
SureMatch(title) ==
    [tmdb_id |-> Catalog(title).tmdb_id, tmdb_type |-> Catalog(title).tmdb_type,
     title |-> Catalog(title).title, year |-> Catalog(title).year,
     confidence |-> 100]

InitQuality ==
    /\ config \in Configs
    /\ incoming = [n \in Names |-> 0]
    /\ library = [p \in DestPaths |-> NoFile]
    /\ processed_files = [n \in Names |-> NoLedgerRow]
    /\ quality_tracking = <<>>
    /\ file_stability = [n \in Names |-> NoStability]
    /\ now = 0
    /\ uploads = 0
    /\ pc = "record"
    /\ batch = <<>>
    /\ decision = NoDecision
    /\ result = NoResult
    /\ calls = <<>>
    /\ shutdown_requested = FALSE
    /\ dry_run = FALSE
    /\ lookups = <<>>
    /\ tmdb = NoSearch
    /\ parser = NoParse
    /\ orchestrator = NoOrchestrator
    /\ counts = NoCounts

\* an earlier move or replace of the file n left its row in quality_tracking
\* (Executor._update_quality_tracking on the decision made for n)
RecordFiled(n) ==
    /\ pc = "record"
    /\ Len(quality_tracking) < MaxFiled
    /\ \E web \in WebOutcomes(n.title) :
         LET d == decide(<<>>, Remote, n, NoMatch, web, SureMatch(n.title),
                         NoAI, NoMatch)
         IN  /\ d.action # "error"
             /\ quality_tracking' =
                    update_quality_tracking(quality_tracking, d.tmdb_id,
                        d.tmdb_type, d.quality, d.destination_path,
                        d.destination_remote, d.season, d.episode)
    /\ UNCHANGED << incoming, library, processed_files, file_stability, now,
                    uploads, pc, batch, decision, result, calls,
                    shutdown_requested, dry_run, config, lookups, tmdb, parser, orchestrator, counts >>

\* decide is called for the file n
DecideQuality(n) ==
    /\ pc = "record"
    /\ \E m1 \in MatchOutcomes(n.title), web \in WebOutcomes(n.title),
          m2 \in MatchOutcomes(n.title) :
            decision' = decide(quality_tracking, Remote, n, m1, web, m2, NoAI, NoMatch)
    /\ pc' = "decided"
    /\ UNCHANGED << incoming, library, processed_files, quality_tracking,
                    file_stability, now, uploads, batch, result, calls,
                    shutdown_requested, dry_run, config, lookups, tmdb, parser, orchestrator, counts >>

NextQuality ==
    \/ \E n \in QualityNames : RecordFiled(n)
    \/ \E n \in QualityNames : DecideQuality(n)

QualitySpec == InitQuality /\ [][NextQuality]_vars

(* ------------------- the matching cascade on its own ------------------ *)
\* the configurations the cascade is examined under: AI fallback off and on
CascadeConfigs ==
    { DefaultConfig, [DefaultConfig EXCEPT !.use_ai_fallback = TRUE] }

InitCascade ==
    /\ config \in CascadeConfigs
    /\ incoming = [n \in Names |-> 0]
    /\ library = [p \in DestPaths |-> NoFile]
    /\ processed_files = [n \in Names |-> NoLedgerRow]
    /\ quality_tracking = <<>>
    /\ file_stability = [n \in Names |-> NoStability]
    /\ now = 0
    /\ uploads = 0
    /\ pc = "record"
    /\ batch = <<>>
    /\ decision = NoDecision
    /\ result = NoResult
    /\ calls = <<>>
    /\ shutdown_requested = FALSE
    /\ dry_run = FALSE
    /\ lookups = <<>>
    /\ tmdb = NoSearch
    /\ parser = NoParse
    /\ orchestrator = NoOrchestrator
    /\ counts = NoCounts

\* decide is called for the file n; each collaborator answers or raises, and
\* the calls decide makes are kept
DecideFile(n) ==
    /\ pc = "record"
    /\ \E m1 \in MatchOutcomes(n.title) \cup {Raised},
          web \in WebOutcomes(n.title) \cup {Raised},
          m2 \in MatchOutcomes(n.title) \cup {Raised},
          ai \in AIOutcomes(n) \cup {Raised},
          m3 \in MatchOutcomes(n.title) \cup {Raised} :
            LET run == DecideCascade(quality_tracking, Remote, n, m1, web, m2, ai, m3)
            IN  /\ decision' = run.decision
                /\ lookups' = run.lookups
    /\ pc' = "decided"
    /\ UNCHANGED << incoming, library, processed_files, quality_tracking,
                    file_stability, now, uploads, batch, result, calls,
                    shutdown_requested, dry_run, config, tmdb, parser, orchestrator, counts >>

NextCascade ==
    \/ \E n \in Names : RecordFiled(n)
    \/ \E n \in Names : DecideFile(n)

CascadeSpec == InitCascade /\ [][NextCascade]_vars

(* --------------------------- tmdb_matcher.py --------------------------- *)
\* outbound calls one _request may make before the catalog stops answering
\* 429
MaxRequests == 3

\* results[:5]
TopResults == 5

\* titles are sequences of lower-cased words, none of which is part of
\* another: the title handed to the search, and the titles of the catalog
SearchTitles == { <<"squid">>, <<"squid", "game">> }

CatalogTitles == { <<"squid", "game">>, <<"squid">>, <<"game", "night">> }

\* Retry-After as the server gives it, or the default of 10
RetryAfters == {1, 10}

\* one entry of a search response: what _calculate_match_confidence and
\* _search_with_title read of it
SearchResults ==
    { [id |-> CASE t = <<"squid", "game">> -> 202
                [] t = <<"squid">> -> 303
                [] OTHER -> 404,
       title |-> t, release_year |-> f[1], popularity |-> f[2], vote_count |-> f[3]] :
        t \in CatalogTitles,
        f \in { <<None, 0, 0>>, <<2024, 51, 101>>, <<2025, 101, 1001>> } }

\* the result lists a search endpoint answers with: none, one or two results,
\* or six of which the last, the only good one, is beyond the first five
Responses ==
    { <<>> } \cup { <<r>> : r \in SearchResults }
             \cup { <<r1, r2>> : r1 \in SearchResults, r2 \in SearchResults }
             \cup { [i \in 1..6 |->
                       IF i = 6
                       THEN [id |-> 202, title |-> <<"squid", "game">>,
                             release_year |-> 2025, popularity |-> 101,
                             vote_count |-> 1001]
                       ELSE [id |-> 404, title |-> <<"game", "night">>,
                             release_year |-> None, popularity |-> 0,
                             vote_count |-> 0]] }

\* a in b, on titles
IsInfix(a, b) ==
    \E i \in 0..(Len(b) - Len(a)) : SubSeq(b, i + 1, i + Len(a)) = a

\* set(title.split())
WordSet(t) == { t[i] : i \in DOMAIN t }

Max(a, b) == IF a >= b THEN a ELSE b

Min(a, b) == IF a <= b THEN a ELSE b

Abs(a) == IF a >= 0 THEN a ELSE 0 - a

\* the title, year, popularity and vote terms of the score, in percent
TitleScore(candidate, parsed) ==
    IF parsed.title = candidate.title THEN 50
    ELSE IF IsInfix(parsed.title, candidate.title) \/ IsInfix(candidate.title, parsed.title)
         THEN 30
         ELSE (Cardinality(WordSet(parsed.title) \cap WordSet(candidate.title)) * 30)
                  \div Max(Cardinality(WordSet(parsed.title)), 1)

YearScore(candidate, parsed) ==
    IF Truthy(parsed.year) /\ candidate.release_year # None
    THEN IF candidate.release_year = parsed.year THEN 30
         ELSE IF Abs(candidate.release_year - parsed.year) <= 1 THEN 15 ELSE 0
    ELSE 0

PopularityScore(candidate) ==
    IF candidate.popularity > 100 THEN 10
    ELSE IF candidate.popularity > 50 THEN 5 ELSE 0

VoteScore(candidate) ==
    IF candidate.vote_count > 1000 THEN 10
    ELSE IF candidate.vote_count > 100 THEN 5 ELSE 0

\* a score whose title terms add up and which is not clipped
_calculate_match_confidence_Unclipped(candidate, parsed, is_tv) ==
    (IF parsed.title = candidate.title THEN 50 ELSE 0)
      + (IF IsInfix(parsed.title, candidate.title) \/ IsInfix(candidate.title, parsed.title)
         THEN 30 ELSE 0)
      + YearScore(candidate, parsed) + PopularityScore(candidate) + VoteScore(candidate)

_calculate_match_confidence(candidate, parsed, is_tv) ==
    Min(TitleScore(candidate, parsed) + YearScore(candidate, parsed)
          + PopularityScore(candidate) + VoteScore(candidate),
        100)

\* the search has kept no candidate
NoCandidate ==
    [tmdb_id |-> None, tmdb_type |-> NoStr, title |-> <<>>, year |-> None,
     confidence |-> 0]

\* TMDBMatch(...) as _search_with_title builds it from a search result
TMDBMatchOf(candidate, tmdb_type, confidence) ==
    [tmdb_id |-> candidate.id, tmdb_type |-> tmdb_type, title |-> candidate.title,
     year |-> candidate.release_year, confidence |-> confidence]

\* the first n entries of a list
Take(list, n) == SubSeq(list, 1, Min(n, Len(list)))

\* the loop over the results of one endpoint: the best match and confidence
\* after it, and the scores computed on the way
RECURSIVE ScoreResults(_, _, _, _)
ScoreResults(results, temp_parsed, tmdb_type, best) ==
    IF results = <<>> THEN best
    ELSE LET confidence ==
                 _calculate_match_confidence(Head(results), temp_parsed, tmdb_type = "tv")
             scored == best.scores \cup {confidence}
         IN  ScoreResults(Tail(results), temp_parsed, tmdb_type,
                 IF confidence > best.best_confidence
                 THEN [best_match |-> TMDBMatchOf(Head(results), tmdb_type, confidence),
                       best_confidence |-> confidence, scores |-> scored]
                 ELSE [best EXCEPT !.scores = scored])

\* the endpoint _search_with_title turns to first
FirstEndpoint(is_series) == IF is_series THEN "tv" ELSE "movie"

\* the movie endpoint is tried below the engine's acceptance threshold of 0.6
SearchesMovieToo_BelowAcceptance(is_series, best_confidence) ==
    ~is_series \/ best_confidence < 60

\* whether _search_with_title goes on to search_movie after search_tv
SearchesMovieToo(is_series, best_confidence) ==
    ~is_series \/ best_confidence < 50

\* match calls _search_with_title(parsed.title, parsed.year, is_series, parsed)
SearchStart(title, year, is_series) ==
    [pc |-> "search", parsed |-> [title |-> title, year |-> year],
     is_series |-> is_series, endpoint |-> NoStr, queried |-> <<>>,
     sent |-> 0, slept |-> <<>>, scores |-> {}, first_confidence |-> None,
     best_match |-> NoCandidate, best_confidence |-> 0]

\* everything but the matcher
others ==
    << incoming, library, processed_files, quality_tracking, file_stability,
       now, uploads, pc, batch, decision, result, calls, shutdown_requested,
       dry_run, config, lookups, parser, orchestrator, counts >>

InitMatcher ==
    /\ config = DefaultConfig
    /\ incoming = [n \in Names |-> 0]
    /\ library = [p \in DestPaths |-> NoFile]
    /\ processed_files = [n \in Names |-> NoLedgerRow]
    /\ quality_tracking = <<>>
    /\ file_stability = [n \in Names |-> NoStability]
    /\ now = 0
    /\ uploads = 0
    /\ pc = "idle"
    /\ batch = <<>>
    /\ decision = NoDecision
    /\ result = NoResult
    /\ calls = <<>>
    /\ shutdown_requested = FALSE
    /\ dry_run = FALSE
    /\ lookups = <<>>
    /\ parser = NoParse
    /\ orchestrator = NoOrchestrator
    /\ counts = NoCounts
    /\ tmdb \in { SearchStart(title, year, is_series) :
                     title \in SearchTitles, year \in {None, 2025},
                     is_series \in BOOLEAN }

\* _search_with_title up to its first search call
BeginSearch ==
    /\ tmdb.pc = "search"
    /\ tmdb' = [tmdb EXCEPT !.pc = "request",
                            !.endpoint = FirstEndpoint(tmdb.is_series),
                            !.queried = <<FirstEndpoint(tmdb.is_series)>>]
    /\ UNCHANGED others

\* _request: the call is answered 429; sleep, then _request calls itself
Respond429(retry_after) ==
    /\ tmdb.pc = "request"
    /\ tmdb.sent + 1 < MaxRequests
    /\ tmdb' = [tmdb EXCEPT !.sent = @ + 1, !.slept = Append(@, retry_after)]
    /\ UNCHANGED others

\* _request: a timeout, a 401, another HTTP error or a connection error;
\* TMDBError leaves _request, the search method and _search_with_title
RespondError ==
    /\ tmdb.pc = "request"
    /\ tmdb' = [tmdb EXCEPT !.pc = "raised", !.sent = @ + 1]
    /\ UNCHANGED others

\* _request returns the response; _search_with_title scores its results and
\* either turns to the movie endpoint or returns
RespondResults(results) ==
    /\ tmdb.pc = "request"
    /\ LET best == ScoreResults(Take(results, TopResults), tmdb.parsed, tmdb.endpoint,
                                [best_match |-> tmdb.best_match,
                                 best_confidence |-> tmdb.best_confidence,
                                 scores |-> tmdb.scores])
           again == /\ tmdb.endpoint = "tv"
                    /\ SearchesMovieToo(tmdb.is_series, best.best_confidence)
       IN  tmdb' = [tmdb EXCEPT !.pc = IF again THEN "request" ELSE "done",
                               !.endpoint = IF again THEN "movie" ELSE @,
                               !.queried = IF again THEN Append(@, "movie") ELSE @,
                               !.sent = IF again THEN 0 ELSE @ + 1,
                               !.slept = IF again THEN <<>> ELSE @,
                               !.scores = best.scores,
                               !.first_confidence =
                                   IF @ = None THEN best.best_confidence ELSE @,
                               !.best_match = best.best_match,
                               !.best_confidence = best.best_confidence]
    /\ UNCHANGED others

NextMatcher ==
    \/ BeginSearch
    \/ \E retry_after \in RetryAfters : Respond429(retry_after)
    \/ RespondError
    \/ \E results \in Responses : RespondResults(results)

MatcherSpec == InitMatcher /\ [][NextMatcher]_vars

(* --------------------------- filename_parser.py ----------------------- *)
\* the season and episode numbers written in a name
Numbers == {0, 2}

\* FilenameParser._extract_season_episode tries five patterns in this order;
\* a name carries at most one of them here
NoPattern == [kind |-> "none", season |-> None, episode |-> None]

Patterns ==
    {NoPattern}
    \cup { [kind |-> k, season |-> s, episode |-> e] :
               k \in {"S01E01", "Season 1 Episode 1", "1x01"},
               s \in Numbers, e \in Numbers }
    \cup { [kind |-> k, season |-> None, episode |-> e] :
               k \in {"Episode 01", " - 01 - "}, e \in Numbers }

\* the languages written in a name
NameLanguages == { {}, {"Hindi"}, {"Korean"} }

\* a file name or a folder name: its title in lower case, and the year,
\* pattern, quality tag and languages written in it
FileNames ==
    [title : {"yts", "movie", "hevc", "dune"}, year : {None, 2019},
     pattern : Patterns, quality : {"Unknown", "720p"},
     languages : {{}, {"Hindi"}}]

NoFolder ==
    [title |-> "", year |-> None, pattern |-> NoPattern, quality |-> "Unknown",
     languages |-> {}]

FilesFolder == [NoFolder EXCEPT !.title = "files"]

FolderNames ==
    [title : {"squid game", "film", "hevc"}, year : {None, 2020},
     pattern : {NoPattern, [kind |-> "S01E01", season |-> 2, episode |-> 2]},
     quality : {"Unknown", "1080p"}, languages : NameLanguages]
    \cup {NoFolder, FilesFolder}

\* (season, episode) as the first matching pattern gives them
_extract_season_episode(name) ==
    CASE name.pattern.kind \in {"S01E01", "Season 1 Episode 1", "1x01"} ->
             << name.pattern.season, name.pattern.episode >>
      [] name.pattern.kind \in {"Episode 01", " - 01 - "} ->
             << 1, name.pattern.episode >>
      [] OTHER -> << None, None >>

\* the languages of a name, the field decide and TMDBMatcher read
detect_languages(name) == name.languages

\* FilenameParser.parse, season and episode extracted from the pattern
ParsedFilename(name) ==
    LET season == _extract_season_episode(name)[1]
        episode == _extract_season_episode(name)[2]
    IN  [title |-> name.title, year |-> name.year,
         season |-> IF Truthy(season) THEN season
                    ELSE IF Truthy(episode) /\ ~Truthy(season) THEN 1 ELSE None,
         episode |-> episode,
         quality |-> name.quality,
         is_series |-> (season # None \/ episode # None),
         languages |-> detect_languages(name)]

\* DecisionEngine._is_generic_parse
_is_generic_parse(parsed) ==
    \/ Len(parsed.title) <= 3
    \/ parsed.title \in {"movie", "video", "film", "sample", "rarbg", "yify", "yts"}
    \/ /\ ~Truthy(parsed.year)
       /\ parsed.title \in {"mkv", "mp4", "avi", "x264", "x265", "hevc"}

\* Python's "a or b" on Optional[int]
Or(a, b) == IF Truthy(a) THEN a ELSE b

\* DecisionEngine._merge_parsed
_merge_parsed(file_parsed, folder_parsed) ==
    [title |-> IF ~_is_generic_parse(folder_parsed) THEN folder_parsed.title
               ELSE file_parsed.title,
     year |-> Or(folder_parsed.year, file_parsed.year),
     season |-> Or(file_parsed.season, folder_parsed.season),
     episode |-> Or(file_parsed.episode, folder_parsed.episode),
     quality |-> IF file_parsed.quality = "Unknown" /\ folder_parsed.quality # "Unknown"
                 THEN folder_parsed.quality ELSE file_parsed.quality,
     is_series |-> (file_parsed.is_series \/ folder_parsed.is_series),
     languages |-> file_parsed.languages \cup folder_parsed.languages]

\* decide parses the parent folder unless there is none or it is "files"
UsableFolder(parent_folder) == parent_folder \notin {NoFolder, FilesFolder}

\* everything but the parser
beside_parser ==
    << incoming, library, processed_files, quality_tracking, file_stability,
       now, uploads, pc, batch, decision, result, calls, shutdown_requested,
       dry_run, config, lookups, tmdb, orchestrator, counts >>

InitParser ==
    /\ config = DefaultConfig
    /\ incoming = [n \in Names |-> 0]
    /\ library = [p \in DestPaths |-> NoFile]
    /\ processed_files = [n \in Names |-> NoLedgerRow]
    /\ quality_tracking = <<>>
    /\ file_stability = [n \in Names |-> NoStability]
    /\ now = 0
    /\ uploads = 0
    /\ pc = "idle"
    /\ batch = <<>>
    /\ decision = NoDecision
    /\ result = NoResult
    /\ calls = <<>>
    /\ shutdown_requested = FALSE
    /\ dry_run = FALSE
    /\ lookups = <<>>
    /\ tmdb = NoSearch
    /\ orchestrator = NoOrchestrator
    /\ counts = NoCounts
    /\ \E filename \in FileNames :
           parser = [pc |-> "parse", filename |-> filename]

\* decide, STEP 1: parser.parse(filename)
ParseFile ==
    /\ parser.pc = "parse"
    /\ parser' = [pc |-> "parsed", filename |-> parser.filename,
                  file_parsed |-> ParsedFilename(parser.filename)]
    /\ UNCHANGED beside_parser

\* decide, STEP 1: a generic parse is merged with the parse of a usable folder
MergeFolder(parent_folder) ==
    /\ parser.pc = "parsed"
    /\ _is_generic_parse(parser.file_parsed)
    /\ UsableFolder(parent_folder)
    /\ parser' = [pc |-> "merged", filename |-> parser.filename,
                  file_parsed |-> parser.file_parsed,
                  folder_parsed |-> ParsedFilename(parent_folder),
                  parsed |-> _merge_parsed(parser.file_parsed,
                                           ParsedFilename(parent_folder))]
    /\ UNCHANGED beside_parser

\* decide, STEP 1: any other parse is kept as it is
KeepParse(parent_folder) ==
    /\ parser.pc = "parsed"
    /\ ~(_is_generic_parse(parser.file_parsed) /\ UsableFolder(parent_folder))
    /\ parser' = [pc |-> "kept", filename |-> parser.filename,
                  file_parsed |-> parser.file_parsed,
                  parsed |-> parser.file_parsed]
    /\ UNCHANGED beside_parser

NextParser ==
    \/ ParseFile
    \/ \E parent_folder \in FolderNames : MergeFolder(parent_folder)
    \/ \E parent_folder \in FolderNames : KeepParse(parent_folder)

ParserSpec == InitParser /\ [][NextParser]_vars

(* --------------------------- ai_orchestrator.py ------------------------ *)
\* no analysis: nothing cached for the file, or _call_ai returned None
NoAnalysis == [cached |-> FALSE]

\* the rationale _heuristic_analysis writes into its analysis
HeuristicRationale == "Analyzed using heuristic patterns"

\* _heuristic_analysis: the facts the patterns find in the name
_heuristic_analysis(name) ==
    [category |-> IF name.season # None THEN "tvshow" ELSE "movie",
     title |-> name.title, year |-> name.year,
     season |-> name.season, episode |-> name.episode,
     languages |-> <<"English">>, quality |-> name.quality,
     rationale |-> HeuristicRationale]

\* what _call_ai can return for a name: None when the API call fails, or the
\* language model's analysis
CallOutcomes(name) ==
    { NoAnalysis,
      [category |-> IF Catalog(name.title).tmdb_type = "tv" THEN "tvshow" ELSE "movie",
       title |-> name.title,
       year |-> IF Catalog(name.title).tmdb_id # None
                THEN Catalog(name.title).year ELSE name.year,
       season |-> name.season, episode |-> name.episode,
       languages |-> <<"English">>, quality |-> name.quality,
       rationale |-> "Title and year read from the name"] }

AIDecision(analysis, confidence, method) ==
    [available |-> TRUE, confidence |-> confidence, method |-> method,
     category |-> analysis.category, title |-> analysis.title,
     year |-> analysis.year, season |-> analysis.season,
     episode |-> analysis.episode, languages |-> analysis.languages,
     quality |-> analysis.quality, rationale |-> analysis.rationale]

\* AIOrchestrator.analyze with a client: the AIDecision returned and the cache
\* left behind; answer is what _call_ai returns, saved whether AICache.set
\* managed to write its file
analyze(cache, name, answer, saved) ==
    IF cache[name] # NoAnalysis
    THEN [decision |-> AIDecision(cache[name], 90, "cached"),
          cache |-> cache]
    ELSE LET analysis == IF answer # NoAnalysis THEN answer
                         ELSE _heuristic_analysis(name)
         IN  [decision |-> IF answer # NoAnalysis
                           THEN AIDecision(analysis, 95, "ai")
                           ELSE AIDecision(analysis, 60, "heuristic"),
              cache |-> IF saved THEN [cache EXCEPT ![name] = analysis] ELSE cache]

\* everything but the orchestrator
beside_orchestrator ==
    << incoming, library, processed_files, quality_tracking, file_stability,
       now, uploads, pc, batch, decision, result, calls, shutdown_requested,
       dry_run, config, lookups, tmdb, parser, counts >>

InitOrchestrator ==
    /\ config = [DefaultConfig EXCEPT !.use_ai_fallback = TRUE]
    /\ incoming = [n \in Names |-> 0]
    /\ library = [p \in DestPaths |-> NoFile]
    /\ processed_files = [n \in Names |-> NoLedgerRow]
    /\ quality_tracking = <<>>
    /\ file_stability = [n \in Names |-> NoStability]
    /\ now = 0
    /\ uploads = 0
    /\ pc = "idle"
    /\ batch = <<>>
    /\ decision = NoDecision
    /\ result = NoResult
    /\ calls = <<>>
    /\ shutdown_requested = FALSE
    /\ dry_run = FALSE
    /\ lookups = <<>>
    /\ tmdb = NoSearch
    /\ parser = NoParse
    /\ orchestrator = [pc |-> "ready", cache |-> [n \in Names |-> NoAnalysis]]
    /\ counts = NoCounts

\* _try_ai_fallback for the file name: orchestrator.analyze is called and its
\* AIDecision is taken or not
AnalyzeFile(name) ==
    /\ orchestrator.pc # "off"
    /\ \E answer \in CallOutcomes(name), saved \in BOOLEAN,
          m3 \in MatchOutcomes(name.title) :
         LET run == analyze(orchestrator.cache, name, answer, saved)
             fallback == _try_ai_fallback(quality_tracking, Remote, name,
                                          run.decision, m3)
         IN  orchestrator' =
                 [pc |-> "analysed", cache |-> run.cache, filename |-> name,
                  ai_decision |-> run.decision,
                  accepted |-> (fallback.decision # NoDecision)]
    /\ UNCHANGED beside_orchestrator

NextOrchestrator ==
    \E name \in Names : AnalyzeFile(name)

OrchestratorSpec == InitOrchestrator /\ [][NextOrchestrator]_vars

(* ------------------------------ properties ---------------------------- *)
\* the step in which execute runs and returns
ExecStep == pc = "execute" /\ pc' = "loop"

\* the step in which run_once scans
ScanStep == pc = "idle" /\ pc' = "loop"

\* execute has just returned for the decision held in decision
Executed == pc = "loop" /\ result.returned

Issued(log, op) == \E i \in DOMAIN log : log[i].op = op

\* the move call of a log succeeded / raised
MoveOk(log) == \E i \in DOMAIN log : log[i].op = "move" /\ log[i].ok

MoveRaised(log) == \E i \in DOMAIN log : log[i].op = "move" /\ ~log[i].ok

\* C1: when a replace is executed and the move of the new file raises, no
\* delete call is issued, the library (the old file included), the incoming
\* file and the quality_tracking table are unchanged, the ledger row of the
\* source is "failed" and execute returns success = False.
C1_MoveFailureAbortsReplace ==
    [][ (ExecStep /\ decision.action = "replace" /\ MoveRaised(calls'))
        => /\ ~Issued(calls', "delete")
           /\ library' = library
           /\ incoming' = incoming
           /\ quality_tracking' = quality_tracking
           /\ processed_files'[decision.source_path].status = "failed"
           /\ result'.returned
           /\ ~result'.success ]_vars

C1_Witness ==
    /\ Executed
    /\ decision.action = "replace"
    /\ MoveRaised(calls)
    /\ library[decision.file_to_delete] # NoFile
    /\ processed_files[decision.source_path].status = "failed"

\* C2: in every execution of a replace, a delete call comes only after a move
\* call to the destination that succeeded and, after that move, an existence
\* check of the destination that answered True.
C2_DeleteOnlyAfterVerifiedMove ==
    (pc = "loop" /\ decision.action = "replace")
    => \A i \in DOMAIN calls :
          calls[i].op = "delete"
          => \E j \in 1..(i - 1), k \in 1..(i - 1) :
                /\ j < k
                /\ calls[j].op = "move"
                /\ calls[j].ok
                /\ calls[j].path = decision.destination_path
                /\ calls[k].op = "exists"
                /\ calls[k].value
                /\ calls[k].path = decision.destination_path

C2_Witness ==
    /\ Executed
    /\ decision.action = "replace"
    /\ Len(calls) = 3
    /\ calls[3].op = "delete"
    /\ calls[3].ok
    /\ calls[3].path = decision.file_to_delete

\* the row get_existing_quality hands the decision engine for a decision's key
RecordFor(d) ==
    get_existing_quality(quality_tracking, d.tmdb_id, d.tmdb_type, d.season, d.episode)

\* the quality_tracking key of a row
KeyOf(row) == << row.tmdb_id, row.tmdb_type, row.season, row.episode >>

\* C3: whenever execute reports success for a replace decision (outside
\* dry-run), the new file is at the decision's destination path and the
\* QualityRecord of the key holds the new quality and that destination.
C3_SuccessfulReplaceKeepsNewFile ==
    (Executed /\ ~dry_run /\ decision.action = "replace" /\ result.success)
    => /\ library[decision.destination_path] = decision.source_path
       /\ RecordFor(decision) # NoRow
       /\ RecordFor(decision).quality = decision.quality
       /\ RecordFor(decision).file_path = decision.destination_path

\* C4: the quality_tracking table never holds two rows with the same key
\* (tmdb_id, tmdb_type, season, episode), null season and episode included.
C4_AtMostOneRowPerKey ==
    \A i, j \in DOMAIN quality_tracking :
        i # j => KeyOf(quality_tracking[i]) # KeyOf(quality_tracking[j])

\* C5 as stated: a path whose ledger row holds any terminal status (success,
\* failed, skipped, duplicate_deleted) is never among the files a scan offers.
C5_TerminalNeverReoffered ==
    \A i \in DOMAIN batch :
        processed_files[batch[i]].status
            \notin {"success", "failed", "skipped", "duplicate_deleted"}

\* C5 as amended: a path whose ledger row is success or skipped is never among
\* the files a scan offers.
C5_ProcessedNeverReoffered ==
    \A i \in DOMAIN batch :
        processed_files[batch[i]].status \notin {"success", "skipped"}

\* a scan has just run while a processed file sat in the incoming area
C5_Witness ==
    /\ pc = "loop"
    /\ decision = NoDecision
    /\ \E n \in Names :
          /\ incoming[n] > 0
          /\ processed_files[n].status \in {"success", "skipped"}
          /\ \A i \in DOMAIN batch : batch[i] # n

\* a replace whose move succeeded and whose delete of the old file failed
DeleteFailedAfterMove ==
    /\ Executed
    /\ ~dry_run
    /\ decision.action = "replace"
    /\ MoveOk(calls)
    /\ \E i \in DOMAIN calls : calls[i].op = "delete" /\ ~calls[i].ok

\* C6: in a replace whose move succeeded, a failed delete of the old file
\* does not fail the operation: execute returns success, the ledger row is
\* success and the QualityRecord of the key holds the new quality and
\* destination.
C6_DeleteFailureIsNotFatal ==
    DeleteFailedAfterMove
    => /\ result.success
       /\ processed_files[decision.source_path].status = "success"
       /\ RecordFor(decision) # NoRow
       /\ RecordFor(decision).quality = decision.quality
       /\ RecordFor(decision).file_path = decision.destination_path

\* C7: in a replace whose move succeeded, when the existence check's own call
\* errors, the replace is not aborted: the old file's delete is issued and
\* the replace is recorded as success.
C7_VerificationErrorTolerated ==
    ( /\ Executed
      /\ ~dry_run
      /\ decision.action = "replace"
      /\ MoveOk(calls)
      /\ \E i \in DOMAIN calls : calls[i].op = "exists" /\ ~calls[i].ok )
    => /\ Issued(calls, "delete")
       /\ result.success
       /\ processed_files[decision.source_path].status = "success"

\* C8: executing a move records success, writes the quality_tracking row and
\* clears the stability row only if the transfer succeeded, and does all
\* three then; if the transfer raises, the ledger row is failed and the
\* quality_tracking table and the stability row are unchanged.
C8_MoveRecordsOnlyOnSuccess ==
    [][ (ExecStep /\ decision.action = "move")
        => LET src == decision.source_path IN
           /\ MoveRaised(calls')
              => /\ processed_files'[src].status = "failed"
                 /\ quality_tracking' = quality_tracking
                 /\ file_stability'[src] = file_stability[src]
                 /\ ~result'.success
           /\ ( \/ processed_files'[src].status = "success"
                \/ quality_tracking' # quality_tracking
                \/ file_stability'[src] # file_stability[src] )
              => MoveOk(calls')
           /\ MoveOk(calls')
              => /\ processed_files'[src].status = "success"
                 /\ file_stability'[src] = NoStability
                 /\ quality_tracking' # quality_tracking
                 /\ quality_tracking'[Len(quality_tracking')].quality = decision.quality
                 /\ quality_tracking'[Len(quality_tracking')].file_path
                        = decision.destination_path
                 /\ result'.success ]_vars

C8_Witness ==
    /\ Executed
    /\ decision.action = "move"
    /\ MoveRaised(calls)
    /\ processed_files[decision.source_path].status = "failed"
    /\ file_stability[decision.source_path] # NoStability

\* C9: executing a skip issues no move or delete call, writes the ledger row
\* "skipped" and removes the source's stability row; and no later scan offers
\* a path whose ledger row is "skipped".
C9_SkipRecordsAndIsNotReoffered ==
    [][ /\ (ExecStep /\ decision.action = "skip")
           => /\ calls' = <<>>
              /\ incoming' = incoming
              /\ library' = library
              /\ processed_files'[decision.source_path].status = "skipped"
              /\ file_stability'[decision.source_path] = NoStability
              /\ result'.success
        /\ ScanStep
           => \A i \in DOMAIN batch' :
                 processed_files[batch'[i]].status # "skipped" ]_vars

\* a scan has just run while a skipped file still sat at its source
C9_Witness ==
    /\ pc = "loop"
    /\ decision = NoDecision
    /\ \E n \in Names :
          /\ incoming[n] > 0
          /\ processed_files[n].status = "skipped"
          /\ file_stability[n] = NoStability

\* C10: executing an error decision issues no move or delete call, leaves the
\* source file, the library and the quality_tracking table unchanged, writes
\* the ledger row "failed" with the decision's reason and returns
\* success = False.
C10_ErrorOnlyRecordsFailure ==
    [][ (ExecStep /\ decision.action = "error")
        => /\ calls' = <<>>
           /\ incoming' = incoming
           /\ library' = library
           /\ quality_tracking' = quality_tracking
           /\ processed_files'[decision.source_path]
                  = [status |-> "failed", error_message |-> decision.error_message]
           /\ result'.returned
           /\ ~result'.success
           /\ result'.error_message = decision.error_message ]_vars

C10_Witness ==
    /\ Executed
    /\ decision.action = "error"
    /\ calls = <<>>
    /\ incoming[decision.source_path] > 0
    /\ processed_files[decision.source_path].status = "failed"
    /\ processed_files[decision.source_path].error_message = "No TMDB match found"

\* C11: executing a delete_source decision issues one delete, of the source
\* file: the library (the filed copy included), every other incoming file and
\* the quality_tracking table are unchanged; when the delete succeeds the
\* source is gone, the ledger row is "duplicate_deleted" and the stability
\* row is removed; when it fails the source stays and the ledger row is
\* "failed".
C11_DeleteSourceDeletesOnlySource ==
    [][ (ExecStep /\ decision.action = "delete_source")
        => LET src == decision.source_path IN
           /\ library' = library
           /\ quality_tracking' = quality_tracking
           /\ \A n \in Names : n # src => incoming'[n] = incoming[n]
           /\ ~dry_run
              => /\ Len(calls') = 1
                 /\ calls'[1].op = "delete"
                 /\ calls'[1].path = src
                 /\ calls'[1].ok
                    => /\ incoming'[src] = 0
                       /\ processed_files'[src].status = "duplicate_deleted"
                       /\ file_stability'[src] = NoStability
                       /\ result'.success
                 /\ ~calls'[1].ok
                    => /\ incoming'[src] = incoming[src]
                       /\ processed_files'[src].status = "failed"
                       /\ ~result'.success ]_vars

C11_Witness ==
    /\ Executed
    /\ ~dry_run
    /\ decision.action = "delete_source"
    /\ result.success
    /\ incoming[decision.source_path] = 0
    /\ library[decision.file_to_delete] # NoFile
    /\ processed_files[decision.source_path].status = "duplicate_deleted"

(* -------------- the replacement decision (QualitySpec) ----------------- *)
\* decide has returned a decision built from an accepted catalog match
Matched == pc = "decided" /\ decision.action # "error"

\* the QualityRecord decide compared against: what the lookup by the
\* decision's key returns
Existing ==
    get_existing_quality(quality_tracking, decision.tmdb_id, decision.tmdb_type,
                         decision.season, decision.episode)

\* the label is one of the ladder's
OnLadder(q) == \E i \in DOMAIN quality_priority : quality_priority[i] = q

\* position on the ladder, worst first; 0 for a label that is not on it
Rank(q) ==
    IF OnLadder(q)
    THEN CHOOSE i \in DOMAIN quality_priority : quality_priority[i] = q
    ELSE 0

\* C12: with quality replacement enabled, when the recorded quality of the
\* key is not CAM and the new file's quality is strictly better on the
\* ladder, the decision is replace and its file to delete is the recorded
\* copy's path on the recorded copy's remote.
C12_BetterQualityReplaces ==
    ( /\ Matched
      /\ config.auto_replace
      /\ Existing # NoRow
      /\ Existing.quality # "CAM"
      /\ Rank(decision.quality) > Rank(Existing.quality) )
    => /\ decision.action = "replace"
       /\ decision.file_to_delete = Existing.file_path
       /\ decision.delete_remote = Existing.remote

C12_Witness ==
    /\ Matched
    /\ config.auto_replace
    /\ Existing # NoRow
    /\ Existing.quality = "720p"
    /\ decision.quality = "1080p"
    /\ decision.action = "replace"
    /\ decision.file_to_delete # decision.destination_path

\* the recorded quality is CAM and the new quality is strictly better
CamUpgrade ==
    /\ Matched
    /\ Existing # NoRow
    /\ Existing.quality = "CAM"
    /\ Rank(decision.quality) > Rank("CAM")

\* the new quality's ladder position is at or above the CAM threshold's
MeetsCamThreshold ==
    Rank(decision.quality) >= Rank(config.cam_replacement_threshold)

\* C13 as stated: when the recorded quality is CAM and the new quality is
\* strictly better, the decision is replace if and only if the new quality is
\* at or above the CAM-replacement threshold, and skip otherwise.
C13_CamThresholdAlways ==
    CamUpgrade
    => /\ decision.action = "replace" <=> MeetsCamThreshold
       /\ ~MeetsCamThreshold => decision.action = "skip"

\* C13 as amended: with quality replacement enabled, when the recorded
\* quality is CAM and the new quality is strictly better, the decision is
\* replace if and only if the new quality is at or above the CAM-replacement
\* threshold, and skip otherwise.
C13_CamThreshold ==
    (CamUpgrade /\ config.auto_replace)
    => /\ decision.action = "replace" <=> MeetsCamThreshold
       /\ ~MeetsCamThreshold => decision.action = "skip"

\* CAM recorded, 720p arrives, threshold 1080p: skip
C13_Witness ==
    /\ CamUpgrade
    /\ config.auto_replace
    /\ config.cam_replacement_threshold = "1080p"
    /\ decision.quality = "720p"
    /\ decision.action = "skip"

\* a record exists and the new quality is equal to it or worse
NotAnUpgrade ==
    /\ Matched
    /\ Existing # NoRow
    /\ Rank(decision.quality) <= Rank(Existing.quality)

\* C14 as stated: when a QualityRecord exists for the key and the new file's
\* quality is equal to or worse than the recorded quality, the decision is
\* skip and names no file to delete.
C14_NotBetterSkipsAlways ==
    NotAnUpgrade
    => /\ decision.action = "skip"
       /\ decision.file_to_delete = NoPath
       /\ decision.delete_remote = NoStr

\* C14 as amended: with quality replacement enabled, when a QualityRecord
\* exists for the key and the new file's quality is equal to or worse than
\* the recorded quality, the decision is skip and names no file to delete.
C14_NotBetterSkips ==
    (NotAnUpgrade /\ config.auto_replace)
    => /\ decision.action = "skip"
       /\ decision.file_to_delete = NoPath
       /\ decision.delete_remote = NoStr

\* 1080p recorded, 720p arrives: skip
C14_Witness ==
    /\ NotAnUpgrade
    /\ config.auto_replace
    /\ Existing.quality = "1080p"
    /\ decision.quality = "720p"
    /\ decision.action = "skip"

\* the table holds a row whose key is exactly the decision's
RecordExistsFor(d) ==
    \E i \in DOMAIN quality_tracking :
        KeyOf(quality_tracking[i]) = << d.tmdb_id, d.tmdb_type, d.season, d.episode >>

\* C15: when no QualityRecord exists for the accepted match's key (catalog
\* id, kind, season, episode) the decision is move with no file to delete;
\* replace and skip decisions arise only when a record for that exact key
\* exists.
C15_NoRecordMoves ==
    Matched
    => /\ ~RecordExistsFor(decision)
          => /\ decision.action = "move"
             /\ decision.file_to_delete = NoPath
       /\ decision.action \in {"replace", "skip"} => RecordExistsFor(decision)

\* exactly one of three
ExactlyOne(a, b, c) ==
    \/ a /\ ~b /\ ~c
    \/ ~a /\ b /\ ~c
    \/ ~a /\ ~b /\ c

\* C16: for any two labels A and B of the ladder exactly one of
\* is_quality_better(A, B), is_quality_better(B, A) and A = B holds, and
\* is_quality_better agrees with the ladder's order (examined on the loaded
\* ladder before a decision is made); the engine's check then takes the
\* matching branch: better gives replace (or the CAM rule's skip), equal or
\* worse gives skip.
C16_LadderIsTotalOrder ==
    /\ (pc = "record" /\ quality_tracking = <<>>)
       => \A i, j \in DOMAIN quality_priority :
             LET A == quality_priority[i]
                 B == quality_priority[j]
             IN  /\ ExactlyOne(is_quality_better(A, B), is_quality_better(B, A), A = B)
                 /\ is_quality_better(A, B) <=> i > j
    /\ ( /\ Matched
         /\ config.auto_replace
         /\ Existing # NoRow
         /\ OnLadder(decision.quality)
         /\ OnLadder(Existing.quality) )
       => /\ ExactlyOne(is_quality_better(decision.quality, Existing.quality),
                        is_quality_better(Existing.quality, decision.quality),
                        decision.quality = Existing.quality)
          /\ is_quality_better(decision.quality, Existing.quality)
                <=> Rank(decision.quality) > Rank(Existing.quality)
          /\ decision.action = "skip"
                <=> \/ ~is_quality_better(decision.quality, Existing.quality)
                    \/ (Existing.quality = "CAM" /\ ~MeetsCamThreshold)

\* two different ladder labels met, the recorded one the better
C16_Witness ==
    /\ Matched
    /\ config.auto_replace
    /\ Existing # NoRow
    /\ OnLadder(decision.quality)
    /\ OnLadder(Existing.quality)
    /\ is_quality_better(Existing.quality, decision.quality)
    /\ decision.action = "skip"

\* C17: a label that is not on the ladder ranks below every ladder label: a
\* file of such a quality is never better than, and never replaces, a recorded
\* copy of ladder quality, and a file of ladder quality is strictly better
\* than a recorded copy whose quality is not on the ladder (and replaces it
\* when replacement is enabled).
C17_UnknownRanksLowest ==
    (Matched /\ Existing # NoRow)
    => /\ (~OnLadder(decision.quality) /\ OnLadder(Existing.quality))
          => /\ ~is_quality_better(decision.quality, Existing.quality)
             /\ is_quality_better(Existing.quality, decision.quality)
             /\ decision.action # "replace"
       /\ (OnLadder(decision.quality) /\ ~OnLadder(Existing.quality))
          => /\ is_quality_better(decision.quality, Existing.quality)
             /\ config.auto_replace => decision.action = "replace"

\* a DVDRip arrives for a key whose recorded copy is CAM
C17_Witness ==
    /\ Matched
    /\ config.auto_replace
    /\ Existing # NoRow
    /\ decision.quality = "DVDRip"
    /\ Existing.quality = "CAM"
    /\ decision.action = "skip"

(* ------------------- the matching cascade (CascadeSpec) ---------------- *)
\* decide has returned
Decided == pc = "decided"

\* the AI fallback was invoked
AskedAI == \E i \in DOMAIN lookups : lookups[i].stage = "ai"

\* the web verifier was invoked
AskedWeb == \E i \in DOMAIN lookups : lookups[i].stage = "web"

\* C18: a decision decide builds from a catalog match (move, replace or skip
\* with a computed destination, the AI fallback not involved) rests on a match
\* of confidence at least 0.6, the last catalog lookup made; and when the
\* first catalog match has confidence at least 0.6 it is the only call decide
\* makes: neither the web verifier nor the AI fallback is invoked, and the
\* decision carries that match's id.
C18_CatalogMatchNeedsConfidence ==
    Decided
    => /\ lookups # <<>>
       /\ lookups[1].stage = "tmdb"
       /\ (decision.action \in {"move", "replace", "skip"} /\ ~AskedAI)
          => /\ lookups[Len(lookups)].stage = "tmdb"
             /\ lookups[Len(lookups)].confidence >= 60
             /\ decision.tmdb_id # None
             /\ decision.destination_path # decision.source_path
       /\ lookups[1].confidence >= 60
          => /\ Len(lookups) = 1
             /\ ~AskedWeb
             /\ ~AskedAI
             /\ decision.action \in {"move", "replace", "skip"}
             /\ decision.tmdb_id = Catalog(decision.source_path.title).tmdb_id

\* AI fallback enabled, first match confident: one call, a filing decision
C18_Witness ==
    /\ Decided
    /\ config.use_ai_fallback
    /\ lookups = << Lookup("tmdb", 90) >>
    /\ decision.action = "replace"

\* no stage of the cascade was accepted: no catalog match reached 0.6 and no
\* AI answer reached 0.7
NothingAccepted ==
    \A i \in DOMAIN lookups :
        /\ lookups[i].stage = "tmdb" => lookups[i].confidence < 60
        /\ lookups[i].stage = "ai" => lookups[i].confidence < 70

\* C19: when no stage of the cascade is accepted, decide returns an error
\* decision with a reason, the parsed title and year of the file, no catalog
\* id and no computed destination (the destination is the source path, and no
\* file to delete is named); and an error decision is returned in no other
\* case.
C19_ExhaustionGivesError ==
    Decided
    => /\ NothingAccepted
          => /\ decision.action = "error"
             /\ decision.error_message # NoStr
             /\ decision.title = parse(decision.source_path).title
             /\ decision.year = parse(decision.source_path).year
             /\ decision.tmdb_id = None
             /\ decision.tmdb_type = NoStr
             /\ decision.destination_path = decision.source_path
             /\ decision.file_to_delete = NoPath
       /\ decision.action = "error" => NothingAccepted

\* catalog, web-corrected catalog and AI heuristic all tried, none accepted
C19_Witness ==
    /\ Decided
    /\ decision.action = "error"
    /\ Len(lookups) = 4
    /\ lookups[3].stage = "tmdb"
    /\ lookups[4] = Lookup("ai", 60)
    /\ decision.title = "Maa"
    /\ decision.year = 2025

(* ---------------------- the ledger's failed rows (Spec) ---------------- *)
\* this step writes the ledger row of path n as failed
WritesFailed(n) ==
    /\ processed_files'[n].status = "failed"
    /\ processed_files'[n] # processed_files[n]

\* a move or delete call of the log failed
TransferOrDeleteFailed(log) ==
    \E i \in DOMAIN log : log[i].op \in {"move", "delete"} /\ ~log[i].ok

\* the existence check of the log did not find the file
NotFound(log) ==
    \E i \in DOMAIN log : log[i].op = "exists" /\ ~log[i].value

\* C20 as stated: a ledger row is written as failed only in an execution in
\* which a transfer or delete call failed; an exhausted cascade (an error
\* decision) does not by itself produce one.
C20_FailedOnlyFromTransfer ==
    [][ \A n \in Names :
          WritesFailed(n)
          => /\ ExecStep
             /\ n = decision.source_path
             /\ TransferOrDeleteFailed(calls') ]_vars

\* C20 as amended: a ledger row is written as failed only by an execution, of
\* that row's source, in which a transfer or delete call failed, or a
\* replace's existence check did not find the new file, or the decision
\* executed is an error decision; no other step writes the ledger, and a
\* decision other than error whose calls all succeed is never written as
\* failed.
C20_FailedOnlyFromExecution ==
    [][ /\ \A n \in Names :
             WritesFailed(n)
             => /\ ExecStep
                /\ n = decision.source_path
                /\ \/ TransferOrDeleteFailed(calls')
                   \/ NotFound(calls')
                   \/ decision.action = "error"
        /\ ~ExecStep => processed_files' = processed_files
        /\ ( /\ ExecStep
             /\ decision.action # "error"
             /\ ~TransferOrDeleteFailed(calls')
             /\ ~NotFound(calls') )
           => ~WritesFailed(decision.source_path) ]_vars

\* an error decision was executed and its row is failed though no call was made
C20_Witness ==
    /\ Executed
    /\ decision.action = "error"
    /\ calls = <<>>
    /\ result.error_message = decision.error_message
    /\ processed_files[decision.source_path].status = "failed"
    /\ file_stability[decision.source_path] # NoStability

(* C21: decide never writes quality_tracking or processed_files: both tables
   are the same before and after the step in which decide runs, and every
   step that changes one of them is a step of the executor. *)
DecideStep == pc = "loop" /\ pc' = "execute"

C21_DecideWritesNoTable ==
    [][ /\ DecideStep =>
              /\ quality_tracking' = quality_tracking
              /\ processed_files' = processed_files
        /\ (quality_tracking' # quality_tracking \/ processed_files' # processed_files)
              => ExecStep
      ]_vars

\* decide has run against tables that hold rows, and read one of them
C21_Witness ==
    /\ pc = "execute"
    /\ decision.action \in {"replace", "skip"}
    /\ quality_tracking # <<>>
    /\ \E n \in Names : processed_files[n] # NoLedgerRow

(* C22: once shutdown has been requested no further file is decided in the
   running batch, and a file that has been decided is executed before the
   loop stops: the only step that leaves the point between decide and execute
   is the executor's, for that same decision, and the loop is left only from
   its between-files check. *)
C22_ShutdownHonouredBetweenFiles ==
    [][ /\ shutdown_requested => ~DecideStep
        /\ (pc = "execute" /\ pc' # "execute") =>
              /\ ExecStep
              /\ decision' = decision
              /\ result'.returned
        /\ (pc # "idle" /\ pc' = "idle") => pc = "loop"
      ]_vars

\* shutdown arrived after a file was decided and before it was executed,
\* with another file of the batch still waiting
C22_Witness ==
    /\ shutdown_requested
    /\ pc = "execute"
    /\ decision # NoDecision
    /\ Len(batch) >= 2

(* C23: the files of a batch are processed one after another: a file is
   decided only when the file before it in the batch has been executed, and
   when that file was filed (a successful move or replace outside dry-run)
   and the next file resolves to the same key, the next decision is made
   against the record the first one wrote: the record found for the key is
   that file's, and the decision is replace or skip, never a plain move. *)
FiledBefore ==
    /\ decision # NoDecision
    /\ decision.action \in {"move", "replace"}
    /\ result.success
    /\ ~dry_run

SameKey(d1, d2) ==
    << d1.tmdb_id, d1.tmdb_type, d1.season, d1.episode >>
        = << d2.tmdb_id, d2.tmdb_type, d2.season, d2.episode >>

C23_BatchIsSequential ==
    [][ DecideStep =>
          /\ decision = NoDecision \/ Executed
          /\ (FiledBefore /\ decision'.action # "error" /\ SameKey(decision, decision')) =>
                /\ RecordFor(decision').file_path = decision.destination_path
                /\ RecordFor(decision').quality = decision.quality
                /\ decision'.action \in {"replace", "skip"}
      ]_vars

\* a file has been decided as an upgrade or a duplicate of the file executed
\* before it in the same batch (result is that file's: run_once starts with
\* none), whose record is the only one there is
C23_Witness ==
    /\ pc = "execute"
    /\ decision.action \in {"replace", "skip"}
    /\ result.returned /\ result.success
    /\ ~dry_run
    /\ Len(quality_tracking) = 1
    /\ RecordFor(decision).file_path # decision.destination_path
        \/ RecordFor(decision).quality # decision.quality

(* C24: every confidence the catalog matcher computes, for any candidate and
   any parsed title and year, lies between 0.0 and 1.0 (0 and 100 percent),
   and so do the best confidence and the confidence of the match kept. *)
C24_ConfidenceInUnitInterval ==
    tmdb.pc # "off" =>
        /\ \A confidence \in tmdb.scores : confidence \in 0..100
        /\ tmdb.best_confidence \in 0..100
        /\ tmdb.best_match.confidence \in 0..100

\* a candidate with every term at its highest has been scored, and so has
\* one with every term at zero
C24_Witness ==
    /\ tmdb.pc = "done"
    /\ 100 \in tmdb.scores
    /\ 0 \in tmdb.scores

(* C25: for one catalog request, a 429 answer causes one sleep for the
   interval the server gave and one retry; a second 429 ends the request, so
   no request sleeps more than once or makes more than two outbound calls. *)
C25_AtMostOneRetry ==
    tmdb.pc # "off" =>
        /\ Len(tmdb.slept) <= 1
        /\ tmdb.sent <= 2

(* C28 as stated: within one catalog search the series endpoint is queried
   first for a series-leaning file and the movie endpoint first otherwise;
   the other endpoint is queried as well if and only if the first endpoint's
   best confidence is below 0.5; and the candidate kept is the one with the
   highest confidence among those scored. *)
OtherEndpoint(endpoint) == IF endpoint = "tv" THEN "movie" ELSE "tv"

HighestScore == IF tmdb.scores = {} THEN 0
                ELSE CHOOSE c \in tmdb.scores : \A other \in tmdb.scores : other <= c

C28_OtherEndpointIffLowConfidence ==
    tmdb.pc = "done" =>
        /\ tmdb.queried[1] = (IF tmdb.is_series THEN "tv" ELSE "movie")
        /\ (tmdb.first_confidence < 50) <=>
               (Len(tmdb.queried) = 2 /\ tmdb.queried[2] = OtherEndpoint(tmdb.queried[1]))
        /\ Len(tmdb.queried) <= 2
        /\ tmdb.best_confidence = HighestScore
        /\ tmdb.best_match.confidence = HighestScore

(* C28, amended: for a series-leaning file the series endpoint is queried
   first and the movie endpoint after it if and only if the series endpoint's
   best confidence is below 0.5; for any other file the movie endpoint is the
   only one queried; and the candidate kept is the one with the highest
   confidence among those scored, none when no score is above 0. *)
C28_MovieAfterLowSeriesConfidence ==
    tmdb.pc = "done" =>
        /\ tmdb.is_series =>
              /\ tmdb.queried[1] = "tv"
              /\ (tmdb.first_confidence < 50) <=> (tmdb.queried = <<"tv", "movie">>)
              /\ (tmdb.first_confidence >= 50) <=> (tmdb.queried = <<"tv">>)
        /\ ~tmdb.is_series => tmdb.queried = <<"movie">>
        /\ tmdb.best_confidence = HighestScore
        /\ tmdb.best_match.confidence = HighestScore
        /\ (tmdb.best_match = NoCandidate) <=> (HighestScore = 0)

\* a series-leaning search whose series endpoint stayed below 0.5 and whose
\* movie endpoint gave the candidate kept
C28_Witness ==
    /\ tmdb.pc = "done"
    /\ tmdb.is_series
    /\ tmdb.queried = <<"tv", "movie">>
    /\ tmdb.first_confidence \in 1..49
    /\ tmdb.best_match.tmdb_type = "movie"
    /\ tmdb.best_confidence = 100

(* C26: with the AI fallback switched off (the default) decide never invokes
   it; with it switched on, it is invoked only after the first catalog match
   stayed below 0.6, the web verifier was asked, and the re-match made for a
   corrected title stayed below 0.6 too; and a decision comes from the AI's
   proposal only if the AI's own confidence is at least 0.7. *)
AIIndex == CHOOSE i \in DOMAIN lookups : lookups[i].stage = "ai"

C26_FallbackOnlyWhenEnabledAndLast ==
    Decided
    => /\ ~config.use_ai_fallback => ~AskedAI
       /\ AskedAI
          => /\ config.use_ai_fallback
             /\ lookups[1].stage = "tmdb" /\ lookups[1].confidence < 60
             /\ lookups[2].stage = "web"
             /\ IF lookups[2].confidence = 100
                THEN /\ lookups[3].stage = "tmdb" /\ lookups[3].confidence < 60
                     /\ AIIndex = 4
                ELSE AIIndex = 3
             /\ decision.action # "error" => lookups[AIIndex].confidence >= 70
             /\ lookups[AIIndex].confidence < 70 => decision.action = "error"

\* the catalog match and the re-match for the corrected title both stayed
\* below 0.6, and the AI's proposal, confidence 0.95, became the decision
C26_Witness ==
    /\ Decided
    /\ config.use_ai_fallback
    /\ Len(lookups) = 5
    /\ lookups[1] = Lookup("tmdb", 50)
    /\ lookups[3] = Lookup("tmdb", 50)
    /\ lookups[4] = Lookup("ai", 95)
    /\ decision.action = "move"

(* C27: decide returns a MoveDecision for every input: when the catalog
   matcher, the web verifier or the AI fallback raises, the call counts as
   having found nothing and the cascade goes on to its next stage (the web
   verifier after a failed first match); a stage that raised is never the one
   accepted, and the result is an error decision only when no stage was
   accepted. *)
C27_CascadeAbsorbsExceptions ==
    Decided
    => /\ decision.action \in {"move", "replace", "skip", "error"}
       /\ lookups # <<>>
       /\ lookups[1].raised => (Len(lookups) >= 2 /\ lookups[2].stage = "web")
       /\ \A i \in DOMAIN lookups :
              (lookups[i].raised /\ lookups[i].stage # "tmdb_for_ai" /\ i = Len(lookups))
                  => decision.action = "error"
       /\ decision.action = "error" <=> NothingAccepted

\* the first catalog match raised, the web verifier corrected the title and
\* the re-match was accepted
C27_Witness ==
    /\ Decided
    /\ Len(lookups) = 3
    /\ lookups[1] = LookupOf("tmdb", Raised)
    /\ lookups[2] = Lookup("web", 100)
    /\ lookups[3] = Lookup("tmdb", 90)
    /\ decision.action = "move"

(* C29 as stated: when a generic file parse is merged with its folder's
   parse, the title and the year are the folder's unless the folder parse is
   itself generic, and then both are the file's; the season and the episode
   are the file's when the file has them, the folder's otherwise; the quality
   is the file's unless that is Unknown, and then the folder's; and the
   languages are the union of the two. *)
C29_MergePrefersFolderTitleAndYear ==
    parser.pc = "merged" =>
        LET file == parser.file_parsed
            folder == parser.folder_parsed
            merged == parser.parsed
        IN  /\ _is_generic_parse(file)
            /\ IF _is_generic_parse(folder)
               THEN merged.title = file.title /\ merged.year = file.year
               ELSE merged.title = folder.title /\ merged.year = folder.year
            /\ merged.season = (IF file.season # None THEN file.season ELSE folder.season)
            /\ merged.episode = (IF file.episode # None THEN file.episode ELSE folder.episode)
            /\ merged.quality = (IF file.quality # "Unknown" THEN file.quality
                                 ELSE folder.quality)
            /\ merged.languages = file.languages \cup folder.languages

(* C30 as stated: a name with an S<season>E<episode> pattern, 0 included, is
   parsed to exactly those numbers; a parse with an episode has a season, 1
   exactly when the name gave none; and a name without a pattern is parsed to
   no season and no episode. *)
C30_SeasonEpisodeAsWritten ==
    parser.pc # "off" /\ parser.pc # "parse" =>
        LET written == parser.filename.pattern
            parsed == parser.file_parsed
        IN  /\ written.kind = "S01E01" =>
                  parsed.season = written.season /\ parsed.episode = written.episode
            /\ parsed.episode # None => parsed.season # None
            /\ (written.kind # "none" /\ written.season = None) => parsed.season = 1
            /\ (written.season # None) => parsed.season = written.season
            /\ written.kind = "none" => parsed.season = None /\ parsed.episode = None

(* C31 as stated: whatever decisions have been executed, every row of
   quality_tracking names, in file_path, a destination that holds a file; in
   particular the row get_existing_quality hands to the next replacement
   comparison does. *)
C31_RecordsNameExistingFiles ==
    \A i \in DOMAIN quality_tracking :
        library[quality_tracking[i].file_path] # NoFile

(* C32 as stated: a file that decide files under one key of quality_tracking
   (catalog id, media kind, season, episode; 0 and absent included) is never
   given the destination path at which a file of another key has been filed. *)
C32_DistinctKeysDistinctPaths ==
    (pc = "decided" /\ decision.action # "error")
    => \A i \in DOMAIN quality_tracking :
           KeyOf(quality_tracking[i]) # KeyOf(decision)
               => quality_tracking[i].file_path # decision.destination_path

\* the actions Executor.execute has a handler for
KnownActions == {"skip", "error", "move", "replace", "delete_source"}

(* C33: when execute returns for a decision with a known action, outside
   dry-run, the ledger holds a row for the decision's source path, and the
   status of that row is failed exactly when execute returned success = False. *)
C33_LedgerRowMatchesResult ==
    [][ (ExecStep /\ ~dry_run /\ decision.action \in KnownActions)
        => /\ processed_files'[decision.source_path] # NoLedgerRow
           /\ (processed_files'[decision.source_path].status = "failed")
                  <=> ~result'.success
           /\ result'.returned ]_vars

\* a replace given up after its move, because the new file was not found: the
\* row of the source is failed and execute returned success = False
C33_Witness ==
    /\ Executed
    /\ ~dry_run
    /\ decision.action = "replace"
    /\ MoveOk(calls)
    /\ ~result.success
    /\ processed_files[decision.source_path].status = "failed"

\* the file is in the list of stable files
InBatch(list, n) == \E i \in DOMAIN list : list[i] = n

\* the file failed last time, is still at its source, and has the size it
\* had when the scanner found it stable
FailedAndUnchanged(n) ==
    /\ processed_files[n].status = "failed"
    /\ incoming[n] > 0
    /\ file_stability[n].tracked
    /\ file_stability[n].is_stable
    /\ file_stability[n].file_size = incoming[n]

(* C34: an execute that leaves the ledger row of its source failed leaves
   the file's file_stability row as it was; and every scan offers every file
   whose row is failed and which is still at its source with the size it was
   found stable at, however often it has failed before. *)
C34_FailedFileIsRetried ==
    [][ /\ (ExecStep /\ processed_files'[decision.source_path].status = "failed")
           => /\ file_stability[decision.source_path].tracked
              /\ file_stability'[decision.source_path] =
                     file_stability[decision.source_path]
        /\ ScanStep
           => \A n \in Names : FailedAndUnchanged(n) => InBatch(batch', n)
      ]_vars

\* a scan has just offered a file whose ledger row is failed
C34_Witness ==
    /\ pc = "loop"
    /\ decision = NoDecision
    /\ batch # <<>>
    /\ processed_files[Head(batch)].status = "failed"
    /\ incoming[Head(batch)] > 0

(* C35: a scan offers a file only if the file was tracked before the scan,
   its size is the size recorded then, and at least the stability period has
   passed since the recorded last size change; and a scan that sees a file
   for the first time, or with a size other than the recorded one, records
   the size and restarts the period at the time of the scan. *)
C35_OfferedOnlyAfterStablePeriod ==
    [][ ScanStep
        => \A n \in Names :
              /\ InBatch(batch', n)
                 => /\ file_stability[n].tracked
                    /\ file_stability[n].file_size = incoming[n]
                    /\ now - file_stability[n].last_size_change
                           >= stability_check_seconds
                    /\ file_stability'[n].is_stable
              /\ (Scanned(n) /\ (~file_stability[n].tracked
                                 \/ file_stability[n].file_size # incoming[n]))
                 => /\ ~InBatch(batch', n)
                    /\ file_stability'[n].tracked
                    /\ file_stability'[n].file_size = incoming[n]
                    /\ file_stability'[n].last_size_change = now
                    /\ ~file_stability'[n].is_stable
      ]_vars

\* a scan has just offered a file that grew after it was first seen: the
\* period ran from the scan that recorded the new size
C35_Witness ==
    /\ pc = "loop"
    /\ decision = NoDecision
    /\ batch # <<>>
    /\ incoming[Head(batch)] = 2
    /\ file_stability[Head(batch)].file_size = 2
    /\ file_stability[Head(batch)].last_size_change >= 1
    /\ now - file_stability[Head(batch)].last_size_change >= stability_check_seconds

(* C36 as stated: in dry-run mode an execute, whatever the action, issues no
   call to the file-transfer tool, moves and deletes no file, and leaves the
   ledger, quality_tracking and file_stability as they were. *)
C36_DryRunHasNoEffect ==
    [][ (ExecStep /\ dry_run)
        => /\ calls' = <<>>
           /\ UNCHANGED << incoming, library, processed_files, quality_tracking,
                           file_stability >> ]_vars

(* C37 as stated: an analysis that comes from the orchestrator's heuristic
   path is never taken by the engine, neither when it is first made nor when
   a later analysis of the same file is served from the cache. *)
C37_HeuristicNeverAccepted ==
    (orchestrator.pc = "analysed"
        /\ orchestrator.ai_decision.rationale = HeuristicRationale)
    => ~orchestrator.accepted

\* the step in which an exception reaches run_once's "except Exception"
RaisedStep ==
    \/ pc = "loop" /\ pc' = "loop" /\ batch' # batch
    \/ pc = "execute" /\ pc' = "loop" /\ ~result'.returned

(* C38: an exception that leaves decide or execute for one file of the batch
   adds one to failure_count and nothing to success_count, and the loop goes
   on with the files after it; every stable file of the scan is counted once
   it has had its turn, and run_once returns only when no file is left or
   shutdown has been requested. *)
C38_ExceptionDoesNotStopBatch ==
    [][ /\ RaisedStep
           => /\ counts'.failure_count = counts.failure_count + 1
              /\ counts'.success_count = counts.success_count
              /\ batch' = Tail(batch)
              /\ pc' = "loop"
        /\ (pc \in {"loop", "execute"} /\ pc' = "idle")
           => /\ pc = "loop"
              /\ batch = <<>> \/ shutdown_requested
        /\ pc' = "loop"
           => counts'.success_count + counts'.failure_count + Len(batch')
                  = counts'.stable_files
      ]_vars

\* a batch of two: the first file's turn ended in an exception (a failure is
\* counted and no failed row was written), the second was then executed with
\* success
C38_Witness ==
    /\ pc = "loop"
    /\ batch = <<>>
    /\ counts = [stable_files |-> 2, success_count |-> 1, failure_count |-> 1]
    /\ result.returned
    /\ result.success
    /\ \A n \in Names : processed_files[n].status # "failed"

\* C39: with automatic quality replacement disabled, every decision built
\* from an accepted match is a move, whatever QualityRecord exists for its
\* key; it is never replace or skip and it names no file to delete.
C39_DisabledReplacementAlwaysMoves ==
    (Matched /\ ~auto_replace_quality)
    => /\ decision.action = "move"
       /\ decision.file_to_delete = NoPath
       /\ decision.delete_remote = NoStr

\* replacement is disabled and a copy of the same title is on record, of a
\* worse quality than the new file's; the decision is a move
C39_Witness ==
    /\ Matched
    /\ ~auto_replace_quality
    /\ Existing # NoRow
    /\ Rank(decision.quality) > Rank(Existing.quality)
    /\ decision.action = "move"
    /\ decision.file_to_delete = NoPath

====
